---- MODULE Spec2Model ----
(***************************************************************************)
(* A model of the pipeline execution engine of decl-worker-api:            *)
(*   - the template resolver (engine/templates.ts),                        *)
(*   - the retry loop and the timeout wrapper (engine/execution.ts),       *)
(*   - the backend registry's selectBackend (core registry),               *)
(*   - the DAG pipeline runner and processTask (engine/dispatcher.ts),     *)
(*   - the sequential pipeline runner (engine/sequential.ts).              *)
(*                                                                         *)
(* JavaScript runs each piece of synchronous code to completion, so every  *)
(* action below is the code between two suspension points (awaits).        *)
(***************************************************************************)
EXTENDS Integers, Sequences, FiniteSets, TLC

\* ------------------------------------------------------------------------
\* Bounds of the model
\* ------------------------------------------------------------------------
\* longest array a forEach template resolves to
MaxItems == 3
\* largest retry.attempts a step or task declares
MaxAttempts == 3
\* the most backends a registry holds when selectBackend is examined alone
MaxBackends == 2
\* the most registerBackend / unregisterBackend / clearBackends calls made
MaxOps == 3
\* the most selectBackend calls of concurrent pipelines, and the most
\* registry calls made while they are in flight
MaxCalls == 2
MaxServedOps == 2

\* ------------------------------------------------------------------------
\* JavaScript values.  A value carries its typeof/shape in field t.
\* ------------------------------------------------------------------------
Undefined == [t |-> "undefined"]
Null == [t |-> "null"]
Num(n) == [t |-> "number", v |-> n]
Str(s) == [t |-> "string", v |-> s]
Bool(b) == [t |-> "boolean", v |-> b]
Arr(s) == [t |-> "array", v |-> s]
Obj(r) == [t |-> "object", v |-> r]

\* the empty object {} / empty Record
EmptyRec == [x \in {} |-> Undefined]

\* r[k] = v added to (or replaced in) the record r
Put(r, k, v) == [x \in (DOMAIN r) \cup {k} |-> IF x = k THEN v ELSE r[x]]

\* the text of an error message as a string value (never empty)
MsgStr(m) == [t |-> "string", m |-> m]

\* truthiness that takes every number, 0 included, as true
TruthyNumbers(val) ==
  CASE val.t = "undefined" -> FALSE
    [] val.t = "null" -> FALSE
    [] val.t = "boolean" -> val.v
    [] val.t = "string" -> IF "v" \in DOMAIN val THEN val.v # "" ELSE TRUE
    [] OTHER -> TRUE

\* JavaScript truthiness of a value (the `!conditionResult` test)
Truthy(val) ==
  CASE val.t = "undefined" -> FALSE
    [] val.t = "null" -> FALSE
    [] val.t = "boolean" -> val.v
    [] val.t = "number" -> val.v # 0
    [] val.t = "string" -> IF "v" \in DOMAIN val THEN val.v # "" ELSE TRUE
    [] OTHER -> TRUE

\* Array.isArray
IsArray(val) == val.t = "array"

\* a typeof that tells arrays and null from objects
TypeOfTag(val) == val.t

\* typeof val
TypeOf(val) == IF val.t \in {"array", "null"} THEN "object" ELSE val.t

\* ------------------------------------------------------------------------
\* Template strings.  A string of a step declaration is kept as the pair
\* (braces, body): braces says that it starts with "{{" and ends with "}}",
\* and body is then the dotted path already split on "."; otherwise body is
\* the string itself.
\* ------------------------------------------------------------------------
Tpl(path) == [braces |-> TRUE, body |-> path]
Lit(s) == [braces |-> FALSE, body |-> s]
\* an absent (or empty) string: both are falsy in the code's tests
NoStr == Lit("")
IsPresent(s) == s.braces \/ s.body # ""
IsLit(s, text) == (~s.braces) /\ s.body = text

\* array index named by a path segment ("0", "1", ...), -1 when not numeric
SegIndex(part) ==
  CASE part = "0" -> 0
    [] part = "1" -> 1
    [] part = "2" -> 2
    [] part = "3" -> 3
    [] part = "4" -> 4
    [] OTHER -> -1

\* a traversal that stops at null where the code reads a missing member
MemberOrNull(current, part) ==
  IF current.t = "object"
  THEN IF part \in DOMAIN current.v THEN current.v[part] ELSE Null
  ELSE IF part = "length" THEN Num(Len(current.v))
  ELSE IF SegIndex(part) >= 0 /\ SegIndex(part) < Len(current.v)
       THEN current.v[SegIndex(part) + 1]
       ELSE Null

\* current[part] of the traversal
Member(current, part) ==
  IF current.t = "object"
  THEN IF part \in DOMAIN current.v THEN current.v[part] ELSE Undefined
  ELSE IF part = "length" THEN Num(Len(current.v))
  ELSE IF SegIndex(part) >= 0 /\ SegIndex(part) < Len(current.v)
       THEN current.v[SegIndex(part) + 1]
       ELSE Undefined

RECURSIVE Walk(_, _)
Walk(current, parts) ==
  IF parts = <<>> THEN current
  ELSE IF current.t \in {"null", "undefined"} THEN Undefined
  ELSE IF current.t \in {"object", "array"}
       THEN Walk(Member(current, Head(parts)), Tail(parts))
       ELSE Undefined

getNestedValue(obj, path) == Walk(obj, path)

resolveTemplate(template, context) ==
  IF template.braces
  THEN getNestedValue(context, template.body)
  ELSE Str(template.body)

resolveTemplates(input, context) ==
  [key \in DOMAIN input |->
     IF input[key].braces
     THEN getNestedValue(context, input[key].body)
     ELSE Str(input[key].body)]

\* ------------------------------------------------------------------------
\* Errors.  An Error object has a message; a message is kept as its
\* template (kind) and the values interpolated into it.
\* ------------------------------------------------------------------------
Message(kind, id, idx, n, list) ==
  [kind |-> kind, id |-> id, idx |-> idx, n |-> n, list |-> list]
NoMsg == Message("", "", -1, 0, <<>>)
Error(m) == [message |-> m]
NoError == Error(NoMsg)

\* `Backend "<name>" not registered`
NotRegisteredMsg(name) == Message("Backend not registered", name, -1, 0, <<>>)
\* `Backend "<name>" is not healthy`
NotHealthyMsg(name) == Message("Backend is not healthy", name, -1, 0, <<>>)
\* what isHealthy() of the backend raises
HealthFailureMsg(name) == Message("health check failure", name, -1, 0, <<>>)
\* what getResources() of the backend raises
ResourcesFailureMsg(name) == Message("resources failure", name, -1, 0, <<>>)
\* `No healthy backend available`
NoHealthyMsg == Message("No healthy backend available", "", -1, 0, <<>>)
\* `"<label>" timed out after <ms>ms`; the label is <id> or <id>[<index>]
TimeoutMsg(id, idx, ms) == Message("timed out after", id, idx, ms, <<>>)
\* `forEach template "<expr>" did not resolve to array, got: <typeof>`
ForEachTypeMsg(expr, type) ==
  Message("forEach did not resolve to array", type, -1, 0, expr.body)
\* `Pipeline deadlock: cannot run remaining steps [<tasks>]. Check for ...`
DeadlockMsg(remaining) == Message("Pipeline deadlock", "", -1, 0, remaining)
\* what the event callback raises
CallbackFailureMsg == Message("event callback failure", "step:complete", -1, 0, <<>>)
\* what the backend raises at the n-th execute call of operation (id, idx)
BackendFailureMsg(id, idx, n) == Message("backend failure", id, idx, n, <<>>)

\* ------------------------------------------------------------------------
\* Declarations: RetryConfig, Step, Task (core/src/types/task.ts)
\* ------------------------------------------------------------------------
\* an absent retry configuration; delay 0 and maxDelay 0 are absent ones
NoRetry ==
  [present |-> FALSE, attempts |-> 0, backoff |-> "fixed", delay |-> 0, maxDelay |-> 0]
Retry(attempts, backoff, delay) ==
  [present |-> TRUE, attempts |-> attempts, backoff |-> backoff, delay |-> delay,
   maxDelay |-> 0]

\* a step that declares only id, task and dependsOn; id "" is an absent id,
\* timeout 0 an absent timeout, forEachConcurrency 0 an absent one
Step(id, type, deps) ==
  [id |-> id, task |-> type, input |-> EmptyRec, dependsOn |-> deps,
   forEach |-> NoStr, forEachConcurrency |-> 0, runWhen |-> NoStr,
   timeout |-> 0, optional |-> FALSE, retry |-> NoRetry]

\* the event callbacks given to processTask: one that returns (or none), and
\* one that raises when it is handed a step:complete event
EventCallbacks == {"returns", "throws on step:complete"}

\* a pipeline task; timeout is task.resources.timeout (0 when absent), gpu
\* says that task.resources.gpu is set, onEvent is the callback given with it
Task(type, backend, payload, steps) ==
  [type |-> type, backend |-> backend, payload |-> payload, steps |-> steps,
   timeout |-> 0, gpu |-> FALSE, retry |-> NoRetry, onEvent |-> "returns"]

\* `step_${index}`
DefaultIds ==
  <<"step_0", "step_1", "step_2", "step_3", "step_4", "step_5", "step_6", "step_7",
    "step_8">>
DefaultId(index) == DefaultIds[index + 1]

\* ------------------------------------------------------------------------
\* State
\* ------------------------------------------------------------------------
VARIABLES
  task,           \* the task given to processTask
  backends,       \* the registry: the registered backends, in insertion order
  pc,             \* where processTask is: "tick" | "await" | "seq" | "seqAwait" |
                  \* "single" | "done"; "selecting" | "idle" for a call of the registry
  outcome,        \* what processTask returned or raised
  running,        \* DAG runner: Set of ids
  completed,      \* DAG runner: Set of ids
  failed,         \* DAG runner: Set of ids
  results,        \* DAG runner: Record id -> result
  stepStatuses,   \* id -> StepStatus
  stepResults,    \* sequential runner: array of results
  seqIndex,       \* sequential runner: loop variable i
  ops,            \* (id, item index) -> the pending executeBackend()/executeItem() call
  forEachLocal,   \* id -> locals of the forEach branch (items, i, concurrency, itemResults)
  executions,     \* DAG runner: ids dispatched in the current tick, in order
  outcomes,       \* DAG runner: id -> what executeStep returned
  parallelGroups, \* DAG runner: groups recorded so far
  emitted,        \* (event type, id) -> number of events given to onEvent
  entered,        \* id -> number of times executeStep was entered
  ticks,          \* number of ticks that dispatched steps
  reported,       \* the values given to onProgress, in order
  clock,          \* the logical time: the number of events emitted so far
  answers,        \* registry: what the backends answered to the selectBackend observed
  history,        \* registry: the registerBackend / unregisterBackend / clearBackends
                  \* calls made so far
  selections      \* registry: the selectBackend calls of concurrent pipelines, each
                  \* with its locals and where it is suspended

schedVars == <<pc, outcome, seqIndex, executions, parallelGroups, ticks, reported>>
engineVars == <<running, completed, failed, results, stepStatuses, stepResults,
                ops, forEachLocal, outcomes, emitted, entered, clock>>
envVars == <<task, backends, answers, history, selections>>
vars == <<envVars, schedVars, engineVars>>

\* the engine's bookkeeping as one record, so that the synchronous pieces of
\* executeStep can be composed
Cur ==
  [running |-> running, completed |-> completed, failed |-> failed,
   results |-> results, stepStatuses |-> stepStatuses, stepResults |-> stepResults,
   ops |-> ops, forEachLocal |-> forEachLocal, outcomes |-> outcomes,
   emitted |-> emitted, entered |-> entered, clock |-> clock]

\* the engine state E0, computed once, becomes the current one
Commit(E0) ==
  \E E \in {E0} :
    /\ running' = E.running
    /\ completed' = E.completed
    /\ failed' = E.failed
    /\ results' = E.results
    /\ stepStatuses' = E.stepStatuses
    /\ stepResults' = E.stepResults
    /\ ops' = E.ops
    /\ forEachLocal' = E.forEachLocal
    /\ outcomes' = E.outcomes
    /\ emitted' = E.emitted
    /\ entered' = E.entered
    /\ clock' = E.clock

\* ------------------------------------------------------------------------
\* processPipelineDAG: stepMap, stepIndexToId
\* ------------------------------------------------------------------------
Steps == task.steps
totalSteps == Len(Steps)

\* `if (task.steps?.length)`
isPipeline == Len(Steps) > 0

\* stepIndexToId.get(index), index from 0
stepIndexToId(index) ==
  IF Steps[index + 1].id # "" THEN Steps[index + 1].id ELSE DefaultId(index)

\* the keys of stepMap
StepIds == {stepIndexToId(i) : i \in 0..(totalSteps - 1)}

\* a map that keeps the first declaration of an id
stepMapFirst(id) ==
  Steps[(CHOOSE i \in 0..(totalSteps - 1) :
           /\ stepIndexToId(i) = id
           /\ \A j \in 0..(i - 1) : stepIndexToId(j) # id) + 1]

\* stepMap.get(id): a later declaration of an id replaces an earlier one
stepMap(id) ==
  Steps[(CHOOSE i \in 0..(totalSteps - 1) :
           /\ stepIndexToId(i) = id
           /\ \A j \in (i + 1)..(totalSteps - 1) : stepIndexToId(j) # id) + 1]

\* iteration order of stepMap: a key keeps the place of its first insertion
RECURSIVE MapOrder(_)
MapOrder(n) ==
  IF n = 0 THEN <<>>
  ELSE LET before == MapOrder(n - 1)
           id == stepIndexToId(n - 1)
       IN IF \E k \in 1..Len(before) : before[k] = id
          THEN before
          ELSE Append(before, id)
stepMapKeys == MapOrder(totalSteps)

\* a StepStatus field that was never assigned
Unset == -1

\* the pending StepStatus of a step
PendingStatus(id, type) ==
  [id |-> id, task |-> type, status |-> "pending", error |-> NoMsg,
   result |-> Undefined, retryAttempt |-> 0,
   startedAt |-> Unset, completedAt |-> Unset, duration |-> Unset]

\* emit(type, stepId): one more event of that type for that step
Count(f, key) == IF key \in DOMAIN f THEN f[key] ELSE 0

\* new Date(): the clock is logical, it reads the number of events emitted
\* so far, so that it never runs backwards
Now(E) == E.clock
emit(E, type, id) ==
  [E EXCEPT !.emitted = Put(@, <<type, id>>, Count(@, <<type, id>>) + 1),
            !.clock = @ + 1]

\* context for template resolution
Context(E) == Obj([payload |-> Obj(task.payload), steps |-> Obj(E.results)])

\* onEvent raises out of emit("step:complete", ...)
throwsOnComplete == task.onEvent = "throws on step:complete"

\* what executeStep returns
Outcome(id, result, error) ==
  [id |-> id, result |-> result, error |-> error, rejected |-> FALSE]

\* the promise of executeStep rejected: an error raised outside its try block
Rejection(id, error) ==
  [id |-> id, result |-> Undefined, error |-> error, rejected |-> TRUE]

\* canRun that only looks at the running set: a finished step runs again
canRunFinishedAgain(E, id) ==
  IF id \in E.running
  THEN FALSE
  ELSE \A k \in 1..Len(stepMap(id).dependsOn) :
         stepMap(id).dependsOn[k] \in E.completed

\* canRun without the test of the dependencies
canRunIgnoringDeps(E, id) ==
  ~(id \in E.running \/ id \in E.completed \/ id \in E.failed)

\* canRun(step, stepId)
canRun(E, id) ==
  IF id \in E.running \/ id \in E.completed \/ id \in E.failed
  THEN FALSE
  ELSE \A k \in 1..Len(stepMap(id).dependsOn) :
         stepMap(id).dependsOn[k] \in E.completed

\* getRunnableSteps(): the runnable ids in stepMap order
getRunnableSteps(E) ==
  SelectSeq(stepMapKeys, LAMBDA id : canRun(E, id))

\* step.retry || task.retry
StepRetry(step) == IF step.retry.present THEN step.retry ELSE task.retry
\* the task-level timeout taken first
timeoutSecondsTaskFirst(step) == IF task.timeout # 0 THEN task.timeout ELSE step.timeout

\* step.timeout || task.resources?.timeout
timeoutSeconds(step) == IF step.timeout # 0 THEN step.timeout ELSE task.timeout

\* the sub-task built for a step or a forEach item
stepTask(step, resolvedInput) ==
  [type |-> step.task, backend |-> task.backend, payload |-> resolvedInput,
   gpu |-> task.gpu, retry |-> StepRetry(step)]

\* executeBackend() / executeItem() called: selectBackend is awaiting
\* label is the index put in the timeout label, -1 when the label is the id
NewOp(step, resolvedInput, label) ==
  [pc |-> "select", task |-> stepTask(step, resolvedInput), label |-> label,
   timeoutMs |-> timeoutSeconds(step) * 1000, attempt |-> 0, calls |-> 0,
   sleeps |-> <<>>, value |-> Undefined, error |-> NoError, timedOut |-> FALSE]

\* ------------------------------------------------------------------------
\* Backend registry: selectBackend (one result per answer of the health
\* checks), and the backend's execute
\* ------------------------------------------------------------------------
\* a Backend object: its name, and obj to tell two objects of one name apart
Backend(name, obj) == [name |-> name, obj |-> obj]
NoBackend == Backend("", 0)

\* the Map `backends` is kept as the sequence of its values in insertion
\* order; no two of them have the same name
Names(registry) == {registry[k].name : k \in 1..Len(registry)}
Registered(names) == [k \in 1..Len(names) |-> Backend(names[k], 1)]

\* a registration that keeps the backend already registered under the name
registerBackendKeepsFirst(registry, backend) ==
  IF backend.name \in Names(registry)
  THEN registry
  ELSE Append(registry, backend)

\* backends.set(backend.name, backend): a new name goes last, a name already
\* there keeps its place and gets the new backend
registerBackend(registry, backend) ==
  IF backend.name \in Names(registry)
  THEN [k \in 1..Len(registry) |->
          IF registry[k].name = backend.name THEN backend ELSE registry[k]]
  ELSE Append(registry, backend)

\* backends.delete(name)
unregisterBackend(registry, name) == SelectSeq(registry, LAMBDA b : b.name # name)

\* Array.from(backends.values())
getAllBackends(registry) == registry

\* a lookup that takes the first backend of the registry
getBackendFirst(registry, name) ==
  IF name \in Names(registry)
  THEN registry[1]
  ELSE NoBackend

\* backends.get(name)
getBackend(registry, name) ==
  IF name \in Names(registry)
  THEN registry[CHOOSE k \in 1..Len(registry) : registry[k].name = name]
  ELSE NoBackend

\* what the backends answer to one selectBackend: isHealthy() of each
\* backend returns true or false or throws; getResources is absent, reports
\* an available GPU or none, or throws
HealthAnswers == {"true", "false", "throws"}
ResourceAnswers == {"absent", "gpu", "nogpu", "throws"}
NoResources(registry) == [name \in Names(registry) |-> "absent"]
Answers(t, registry) ==
  [health : [Names(registry) -> HealthAnswers],
   resources : IF t.gpu /\ (t.backend = "" \/ t.backend = "auto")
               THEN [Names(registry) -> ResourceAnswers]
               ELSE {NoResources(registry)}]

Selected(backend) == [ok |-> TRUE, backend |-> backend, error |-> NoError]
SelectError(m) == [ok |-> FALSE, backend |-> NoBackend, error |-> Error(m)]

\* the loop over healthyBackends of a task that requires a GPU, from the
\* k-th healthy backend on
RECURSIVE gpuLoop(_, _, _)
gpuLoop(healthyBackends, resources, k) ==
  IF k > Len(healthyBackends)
  THEN Selected(healthyBackends[1])
  ELSE LET answer == resources[healthyBackends[k].name]
       IN IF answer = "throws"
          THEN SelectError(ResourcesFailureMsg(healthyBackends[k].name))
          ELSE IF answer = "gpu"
          THEN Selected(healthyBackends[k])
          ELSE gpuLoop(healthyBackends, resources, k + 1)

\* selectBackend(task) when the backends give these answers
select(t, registry, given) ==
  IF t.backend # "" /\ t.backend # "auto"
  THEN IF t.backend \notin Names(registry)
       THEN SelectError(NotRegisteredMsg(t.backend))
       ELSE IF given.health[t.backend] = "throws"
       THEN SelectError(HealthFailureMsg(t.backend))
       ELSE IF given.health[t.backend] = "false"
       THEN SelectError(NotHealthyMsg(t.backend))
       ELSE Selected(getBackend(registry, t.backend))
  ELSE LET healthyBackends ==
             SelectSeq(registry, LAMBDA b : given.health[b.name] = "true")
       IN IF Len(healthyBackends) = 0
          THEN SelectError(NoHealthyMsg)
          ELSE IF t.gpu
          THEN gpuLoop(healthyBackends, given.resources, 1)
          ELSE Selected(healthyBackends[1])

\* no selectBackend was observed
NoAnswers == [health |-> EmptyRec, resources |-> EmptyRec]

\* the results selectBackend(task) can have
selectBackend(t, registry) == {select(t, registry, a) : a \in Answers(t, registry)}

\* ------------------------------------------------------------------------
\* selectBackend(task) piece by piece: it is suspended at every isHealthy and
\* getResources call, and the registry may change while it is.  A call is
\* kept with its locals: backend (the one being asked), healthyBackends, the
\* position of the iterator of backends.values() (cursor: how many of the
\* backends now registered it has passed), the position k in the GPU loop,
\* has (which healthy backends define getResources), and registered: the
\* backends that were in the registry at some moment of the call.
\* ------------------------------------------------------------------------
isNamed(t) == t.backend # "" /\ t.backend # "auto"

settle(sel, result) == [sel EXCEPT !.pc = "done", !.result = result]

\* the GPU loop from its test: the next healthy backend that defines
\* getResources is asked, else the first healthy backend is returned
gpuNext(sel) ==
  LET later == {j \in 1..Len(sel.healthyBackends) : j > sel.k /\ sel.has[j]}
  IN IF later = {}
     THEN settle(sel, Selected(sel.healthyBackends[1]))
     ELSE [sel EXCEPT !.pc = "resources",
                      !.k = CHOOSE j \in later : \A i \in later : j <= i]

\* after the loop over backends.values()
afterLoop(sel, has) ==
  IF Len(sel.healthyBackends) = 0
  THEN settle(sel, SelectError(NoHealthyMsg))
  ELSE IF sel.task.gpu
  THEN gpuNext([sel EXCEPT !.has = has, !.k = 0])
  ELSE settle(sel, Selected(sel.healthyBackends[1]))

\* the iterator has a next backend
hasNext(sel, registry) == sel.cursor < Len(registry)

\* the loop over backends.values() takes the next backend and asks it
visitNext(sel, registry) ==
  [sel EXCEPT !.pc = "health", !.backend = registry[sel.cursor + 1], !.cursor = @ + 1]

\* the locals of a call that has not run yet
newSelection(t, registry) ==
  [task |-> t, pc |-> "start", backend |-> NoBackend, cursor |-> 0,
   healthyBackends |-> <<>>, has |-> <<>>, k |-> 0,
   registered |-> {registry[j] : j \in 1..Len(registry)},
   healthy |-> {}, result |-> SelectError(NoMsg)]

\* selectBackend(task) from its call to its first await
startSelection(t, registry) ==
  LET sel == newSelection(t, registry)
  IN IF isNamed(t)
     THEN IF getBackend(registry, t.backend) = NoBackend
          THEN settle(sel, SelectError(NotRegisteredMsg(t.backend)))
          ELSE [sel EXCEPT !.pc = "health", !.backend = getBackend(registry, t.backend)]
     ELSE IF hasNext(sel, registry)
          THEN visitNext(sel, registry)
          ELSE afterLoop(sel, <<>>)

\* the choices of which healthy backends define getResources, drawn when the
\* GPU loop is entered
HasChoices(sel, registry) ==
  IF ~isNamed(sel.task) /\ ~hasNext(sel, registry) /\ sel.task.gpu
  THEN [1..Len(sel.healthyBackends) -> BOOLEAN]
  ELSE {<<>>}

\* the health check of the named backend settled
namedHealth(sel, answer) ==
  IF answer = "throws"
  THEN settle(sel, SelectError(HealthFailureMsg(sel.task.backend)))
  ELSE IF answer = "false"
  THEN settle(sel, SelectError(NotHealthyMsg(sel.task.backend)))
  ELSE settle([sel EXCEPT !.healthy = @ \cup {sel.backend}], Selected(sel.backend))

\* the health check in the loop settled: push when true, skip otherwise
pushHealthy(sel, answer) ==
  IF answer = "true"
  THEN [sel EXCEPT !.healthyBackends = Append(@, sel.backend),
                   !.healthy = @ \cup {sel.backend}]
  ELSE sel

\* getResources of the k-th healthy backend settled
resourcesAnswer(sel, answer) ==
  IF answer = "throws"
  THEN settle(sel, SelectError(ResourcesFailureMsg(sel.healthyBackends[sel.k].name)))
  ELSE IF answer = "gpu"
  THEN settle(sel, Selected(sel.healthyBackends[sel.k]))
  ELSE gpuNext(sel)

\* what a suspended call sees of backends.set: the iterator keeps its place,
\* a new name is still to come
seesRegister(sel, backend) ==
  IF sel.pc = "done" THEN sel ELSE [sel EXCEPT !.registered = @ \cup {backend}]

\* what a suspended call sees of backends.delete(name): the iterator has one
\* backend less behind it when the backend deleted was passed already
seesUnregister(sel, registry, name) ==
  IF sel.pc = "done" \/ name \notin Names(registry)
  THEN sel
  ELSE LET q == CHOOSE j \in 1..Len(registry) : registry[j].name = name
       IN IF q <= sel.cursor THEN [sel EXCEPT !.cursor = @ - 1] ELSE sel

\* what a suspended call sees of backends.clear(): nothing is behind the
\* iterator any more
seesClear(sel) == IF sel.pc = "done" THEN sel ELSE [sel EXCEPT !.cursor = 0]

\* what a successful backend.execute(stepTask) returns
BackendResults(t) == {Obj([task |-> Str(t.type), payload |-> Obj(t.payload)])}

\* ------------------------------------------------------------------------
\* executeWithRetry (engine/execution.ts), as the steps of one pending call
\* ------------------------------------------------------------------------
\* the negation of `!retry || !retry.attempts || retry.attempts <= 1`
retryActive(retry) == retry.present /\ retry.attempts > 1

\* retry.delay || 1000
baseDelay(retry) == IF retry.delay # 0 THEN retry.delay ELSE 1000

backoffDelay(retry, attempt) ==
  IF retry.backoff = "exponential"
  THEN baseDelay(retry) * 2^(attempt - 1)
  ELSE baseDelay(retry)

\* a sleep after the last attempt too
sleepsAfterEvery(retry, attempt) == attempt <= retry.attempts

\* `attempt < retry.attempts`: whether a sleep follows the failed attempt
sleepsAfter(retry, attempt) == attempt < retry.attempts

\* executor() called
invokeExecutor(op) == [op EXCEPT !.calls = @ + 1, !.pc = "execute"]

\* entry of executeWithRetry after the backend was selected
retryEnter(op) ==
  IF ~retryActive(op.task.retry)
  THEN invokeExecutor(op)
  ELSE invokeExecutor([op EXCEPT !.attempt = 1])

\* the executor's promise rejected with error
retryCatch(op, error) ==
  IF ~retryActive(op.task.retry)
  THEN [op EXCEPT !.pc = "rejected", !.error = error]
  ELSE IF sleepsAfter(op.task.retry, op.attempt)
       THEN [op EXCEPT !.pc = "sleep", !.error = error,
                       !.sleeps = Append(@, backoffDelay(op.task.retry, op.attempt))]
       ELSE [op EXCEPT !.pc = "rejected", !.error = error]

\* the backoff sleep is over: attempt++, loop test, next attempt or throw lastError
retryNext(op) ==
  IF op.attempt + 1 <= op.task.retry.attempts
  THEN invokeExecutor([op EXCEPT !.attempt = @ + 1])
  ELSE [op EXCEPT !.attempt = @ + 1, !.pc = "rejected"]

\* an onRetry callback that also emits an event
onRetryEmits(E, id, op) ==
  IF isPipeline /\ retryActive(op.task.retry) /\ op.pc = "execute"
  THEN emit([E EXCEPT !.stepStatuses[id].retryAttempt = op.attempt], "step:retry", id)
  ELSE E

\* onRetry: status.retryAttempt = attempt, called at the start of an attempt
\* of the retry loop; the single-task path passes no onRetry
onRetry(E, id, op) ==
  IF isPipeline /\ retryActive(op.task.retry) /\ op.pc = "execute"
  THEN [E EXCEPT !.stepStatuses[id].retryAttempt = op.attempt]
  ELSE E

\* ------------------------------------------------------------------------
\* processPipelineDAG: executeStep
\* ------------------------------------------------------------------------
OnDemandMarker == Obj([skipped |-> Bool(TRUE), reason |-> Str("on-demand")])
ConditionFalseMarker(condition) ==
  Obj([skipped |-> Bool(TRUE), reason |-> Str("condition-false"),
       condition |-> [t |-> "string", tpl |-> condition]])
ErrorMarker(errorMsg) == Obj([error |-> MsgStr(errorMsg), skipped |-> Bool(TRUE)])

\* a skip that announces the step with step:start first
SkipStepAnnounced(E, id, marker) ==
  LET E0 == emit(E, "step:start", id)
      E1 == emit([E0 EXCEPT !.stepStatuses[id].status = "skipped",
                            !.running = @ \ {id},
                            !.completed = @ \cup {id},
                            !.results = Put(@, id, marker),
                            !.outcomes = Put(@, id, Outcome(id, marker, NoError))],
                 "step:complete", id)
  IN IF throwsOnComplete
     THEN [E1 EXCEPT !.outcomes = Put(@, id, Rejection(id, Error(CallbackFailureMsg)))]
     ELSE E1

\* a skip that leaves the step in the running set
SkipStepStillRunning(E, id, marker) ==
  LET E1 == emit([E EXCEPT !.stepStatuses[id].status = "skipped",
                           !.completed = @ \cup {id},
                           !.results = Put(@, id, marker),
                           !.outcomes = Put(@, id, Outcome(id, marker, NoError))],
                 "step:complete", id)
  IN IF throwsOnComplete
     THEN [E1 EXCEPT !.outcomes = Put(@, id, Rejection(id, Error(CallbackFailureMsg)))]
     ELSE E1

\* a step skipped by runWhen; the emit is outside the try block
SkipStep(E, id, marker) ==
  LET E1 == emit([E EXCEPT !.stepStatuses[id].status = "skipped",
                           !.running = @ \ {id},
                           !.completed = @ \cup {id},
                           !.results = Put(@, id, marker),
                           !.outcomes = Put(@, id, Outcome(id, marker, NoError))],
                 "step:complete", id)
  IN IF throwsOnComplete
     THEN [E1 EXCEPT !.outcomes = Put(@, id, Rejection(id, Error(CallbackFailureMsg)))]
     ELSE E1

\* the catch block without `completed.add(stepId)` for an optional step
CatchStepNotCompleted(E, id, error) ==
  LET errorMsg == error.message
  IN IF stepMap(id).optional
     THEN emit([E EXCEPT !.running = @ \ {id},
                         !.results = Put(@, id, ErrorMarker(errorMsg)),
                         !.stepStatuses[id].status = "skipped",
                         !.stepStatuses[id].completedAt = Now(E),
                         !.stepStatuses[id].duration = Now(E) - E.stepStatuses[id].startedAt,
                         !.stepStatuses[id].error = errorMsg,
                         !.outcomes = Put(@, id, Outcome(id, ErrorMarker(errorMsg), NoError))],
               "step:error", id)
     ELSE emit([E EXCEPT !.running = @ \ {id},
                         !.failed = @ \cup {id},
                         !.stepStatuses[id].status = "failed",
                         !.stepStatuses[id].completedAt = Now(E),
                         !.stepStatuses[id].duration = Now(E) - E.stepStatuses[id].startedAt,
                         !.stepStatuses[id].error = errorMsg,
                         !.outcomes = Put(@, id, Outcome(id, Undefined, error))],
               "step:error", id)

\* the catch block of executeStep
CatchStep(E, id, error) ==
  LET errorMsg == error.message
  IN IF stepMap(id).optional
     THEN emit([E EXCEPT !.running = @ \ {id},
                         !.completed = @ \cup {id},
                         !.results = Put(@, id, ErrorMarker(errorMsg)),
                         !.stepStatuses[id].status = "skipped",
                         !.stepStatuses[id].completedAt = Now(E),
                         !.stepStatuses[id].duration = Now(E) - E.stepStatuses[id].startedAt,
                         !.stepStatuses[id].error = errorMsg,
                         !.outcomes = Put(@, id, Outcome(id, ErrorMarker(errorMsg), NoError))],
               "step:error", id)
     ELSE emit([E EXCEPT !.running = @ \ {id},
                         !.failed = @ \cup {id},
                         !.stepStatuses[id].status = "failed",
                         !.stepStatuses[id].completedAt = Now(E),
                         !.stepStatuses[id].duration = Now(E) - E.stepStatuses[id].startedAt,
                         !.stepStatuses[id].error = errorMsg,
                         !.outcomes = Put(@, id, Outcome(id, Undefined, error))],
               "step:error", id)

\* the success path without `running.delete(stepId)`
CompleteStepStillRunning(E, id, result) ==
  LET E1 == emit([E EXCEPT !.completed = @ \cup {id},
                           !.results = Put(@, id, result),
                           !.stepStatuses[id].status = "completed",
                           !.stepStatuses[id].completedAt = Now(E),
                           !.stepStatuses[id].duration = Now(E) - E.stepStatuses[id].startedAt,
                           !.stepStatuses[id].result = result,
                           !.outcomes = Put(@, id, Outcome(id, result, NoError))],
                 "step:complete", id)
  IN IF throwsOnComplete THEN CatchStep(E1, id, Error(CallbackFailureMsg)) ELSE E1

\* the step's work resolved with result; the emit is inside the try block,
\* so what the callback raises goes to the catch block
CompleteStep(E, id, result) ==
  LET E1 == emit([E EXCEPT !.running = @ \ {id},
                           !.completed = @ \cup {id},
                           !.results = Put(@, id, result),
                           !.stepStatuses[id].status = "completed",
                           !.stepStatuses[id].completedAt = Now(E),
                           !.stepStatuses[id].duration = Now(E) - E.stepStatuses[id].startedAt,
                           !.stepStatuses[id].result = result,
                           !.outcomes = Put(@, id, Outcome(id, result, NoError))],
                 "step:complete", id)
  IN IF throwsOnComplete THEN CatchStep(E1, id, Error(CallbackFailureMsg)) ELSE E1

\* positions of the items of the current batch: items.slice(i, i + concurrency)
\* a batch of concurrency + 1 positions
BatchOfOneMore(fl) == {k \in fl.i..(fl.i + fl.concurrency) : k < Len(fl.items)}

\* items.slice(i, i + concurrency), as the positions of the batch
BatchOf(fl) == {k \in fl.i..(fl.i + fl.concurrency - 1) : k < Len(fl.items)}

\* the position within the batch taken as the index
itemIndexInBatch(i, batchIndex) == batchIndex

\* const index = i + batchIndex
itemIndex(i, batchIndex) == i + batchIndex

itemContext(E, item, index) ==
  Obj([payload |-> Obj(task.payload), steps |-> Obj(E.results),
       item |-> item, index |-> Num(index)])

\* the for loop over the batches, from its test: starts the next batch, or
\* completes the step when no item is left
forEachLoop(E, id) ==
  LET step == stepMap(id)
      fl == E.forEachLocal[id]
      batch == BatchOf(fl)
  IN IF fl.i < Len(fl.items)
     THEN [E EXCEPT !.ops =
             [key \in (DOMAIN E.ops) \cup {<<id, k>> : k \in batch} |->
                IF key[1] = id /\ key[2] \in batch
                THEN NewOp(step,
                       resolveTemplates(step.input,
                         itemContext(E, fl.items[key[2] + 1],
                                     itemIndex(fl.i, key[2] - fl.i))),
                       itemIndex(fl.i, key[2] - fl.i))
                ELSE E.ops[key]]]
     ELSE CompleteStep(E, id, Arr(fl.itemResults))

\* executeStep from `status.status = "running"` to its first await
runStep(E, id) ==
  LET step == stepMap(id)
      E1 == emit([E EXCEPT !.stepStatuses[id].status = "running",
                           !.stepStatuses[id].startedAt = Now(E)], "step:start", id)
  IN IF IsPresent(step.forEach)
     THEN LET items == resolveTemplate(step.forEach, Context(E1))
          IN IF ~IsArray(items)
             THEN CatchStep(E1, id, Error(ForEachTypeMsg(step.forEach, TypeOf(items))))
             ELSE forEachLoop(
                    [E1 EXCEPT !.forEachLocal = Put(@, id,
                       [items |-> items.v, i |-> 0,
                        concurrency |-> IF step.forEachConcurrency # 0
                                        THEN step.forEachConcurrency
                                        ELSE Len(items.v),
                        itemResults |-> <<>>])], id)
     ELSE [E1 EXCEPT !.ops = Put(@, <<id, 0>>,
                                 NewOp(step, resolveTemplates(step.input, Context(E1)), -1))]

\* executeStep(stepId, step) up to its first await
executeStep(E, id) ==
  LET step == stepMap(id)
      E1 == [E EXCEPT !.running = @ \cup {id},
                      !.entered = Put(@, id, Count(@, id) + 1)]
  IN IF IsPresent(step.runWhen) /\ ~IsLit(step.runWhen, "always")
     THEN IF IsLit(step.runWhen, "on-demand")
          THEN SkipStep(E1, id, OnDemandMarker)
          ELSE IF ~Truthy(resolveTemplate(step.runWhen, Context(E1)))
               THEN SkipStep(E1, id, ConditionFalseMarker(step.runWhen))
               ELSE runStep(E1, id)
     ELSE runStep(E1, id)

\* a forEach batch awaited with Promise.allSettled: the step fails when the
\* last item of the batch has settled
resumeStepAllSettled(E, id, idx) ==
  LET step == stepMap(id)
      op == E.ops[<<id, idx>>]
  IN IF id \notin E.running
     THEN E
     ELSE IF ~IsPresent(step.forEach)
     THEN IF op.pc = "rejected"
          THEN CatchStep(E, id, op.error)
          ELSE CompleteStep(E, id, op.value)
     ELSE LET fl == E.forEachLocal[id]
              batch == BatchOf(fl)
              rejected == {k \in batch : E.ops[<<id, k>>].pc = "rejected"}
          IN IF \E k \in batch : E.ops[<<id, k>>].pc \notin {"resolved", "rejected"}
             THEN E
             ELSE IF rejected # {}
             THEN CatchStep(E, id,
                    E.ops[<<id, CHOOSE k \in rejected : \A j \in rejected : k <= j>>].error)
             ELSE forEachLoop(
                    [E EXCEPT !.forEachLocal[id].itemResults =
                                 @ \o [b \in 1..Cardinality(batch) |->
                                         E.ops[<<id, fl.i + b - 1>>].value],
                              !.forEachLocal[id].i = @ + fl.concurrency], id)

\* executeStep resumed because its pending call (id, idx) settled
resumeStep(E, id, idx) ==
  LET step == stepMap(id)
      op == E.ops[<<id, idx>>]
  IN IF id \notin E.running
     THEN E
     ELSE IF op.pc = "rejected"
     THEN CatchStep(E, id, op.error)
     ELSE IF ~IsPresent(step.forEach)
     THEN CompleteStep(E, id, op.value)
     ELSE LET fl == E.forEachLocal[id]
              batch == BatchOf(fl)
          IN IF \A k \in batch : E.ops[<<id, k>>].pc = "resolved"
             THEN forEachLoop(
                    [E EXCEPT !.forEachLocal[id].itemResults =
                                 @ \o [b \in 1..Cardinality(batch) |->
                                         E.ops[<<id, fl.i + b - 1>>].value],
                              !.forEachLocal[id].i = @ + fl.concurrency], id)
             ELSE E

\* ------------------------------------------------------------------------
\* processPipelineSequential (engine/sequential.ts)
\* ------------------------------------------------------------------------
seqContext(E) == Obj([payload |-> Obj(task.payload), steps |-> Arr(E.stepResults)])

\* a step skipped by runWhen: push the marker and `continue`
seqSkip(E, id, marker) ==
  emit([E EXCEPT !.stepStatuses[id].status = "skipped",
                 !.stepStatuses[id].completedAt = Now(E),
                 !.stepStatuses[id].duration = 0,
                 !.stepResults = Append(@, marker)],
       "step:complete", id)

\* one iteration of the for loop, from the push of the status to the first
\* await (or to `continue` when the step is skipped)
seqIteration(E, i) ==
  LET step == Steps[i + 1]
      id == DefaultId(i)
      E1 == [E EXCEPT !.stepStatuses =
                        Put(@, id, [PendingStatus(id, step.task) EXCEPT !.startedAt = Now(E)]),
                      !.entered = Put(@, id, Count(@, id) + 1)]
      E2 == emit([E1 EXCEPT !.stepStatuses[id].status = "running"], "step:start", id)
      started == [E2 EXCEPT !.ops = Put(@, <<id, 0>>,
                    NewOp(step, resolveTemplates(step.input, seqContext(E2)), -1))]
  IN IF IsPresent(step.runWhen) /\ ~IsLit(step.runWhen, "always")
     THEN IF IsLit(step.runWhen, "on-demand")
          THEN seqSkip(E1, id, OnDemandMarker)
          ELSE IF ~Truthy(resolveTemplate(step.runWhen, seqContext(E1)))
               THEN seqSkip(E1, id, ConditionFalseMarker(step.runWhen))
               ELSE started
     ELSE started

\* a catch block that marks an optional step failed
seqCatchMarksFailed(E, i, error) ==
  LET step == Steps[i + 1]
      id == DefaultId(i)
      errorMsg == error.message
  IN IF step.optional
     THEN emit([E EXCEPT !.stepResults = Append(@, ErrorMarker(errorMsg)),
                         !.stepStatuses[id].status = "failed",
                         !.stepStatuses[id].completedAt = Now(E),
                         !.stepStatuses[id].duration = Now(E) - E.stepStatuses[id].startedAt,
                         !.stepStatuses[id].error = errorMsg],
               "step:error", id)
     ELSE emit([E EXCEPT !.stepStatuses[id].status = "failed",
                         !.stepStatuses[id].completedAt = Now(E),
                         !.stepStatuses[id].duration = Now(E) - E.stepStatuses[id].startedAt,
                         !.stepStatuses[id].error = errorMsg],
               "step:error", id)

\* the catch block of the iteration
seqCatch(E, i, error) ==
  LET step == Steps[i + 1]
      id == DefaultId(i)
      errorMsg == error.message
  IN IF step.optional
     THEN emit([E EXCEPT !.stepResults = Append(@, ErrorMarker(errorMsg)),
                         !.stepStatuses[id].status = "skipped",
                         !.stepStatuses[id].completedAt = Now(E),
                         !.stepStatuses[id].duration = Now(E) - E.stepStatuses[id].startedAt,
                         !.stepStatuses[id].error = errorMsg],
               "step:error", id)
     ELSE emit([E EXCEPT !.stepStatuses[id].status = "failed",
                         !.stepStatuses[id].completedAt = Now(E),
                         !.stepStatuses[id].duration = Now(E) - E.stepStatuses[id].startedAt,
                         !.stepStatuses[id].error = errorMsg],
               "step:error", id)

\* the iteration resumed because its pending call settled
seqResume(E, i) ==
  LET id == DefaultId(i)
      op == E.ops[<<id, 0>>]
  IN IF op.pc = "resolved"
     THEN LET E1 == emit([E EXCEPT !.stepResults = Append(@, op.value),
                                   !.stepStatuses[id].status = "completed",
                                   !.stepStatuses[id].completedAt = Now(E),
                                   !.stepStatuses[id].duration =
                                      Now(E) - E.stepStatuses[id].startedAt,
                                   !.stepStatuses[id].result = op.value],
                         "step:complete", id)
          IN IF throwsOnComplete THEN seqCatch(E1, i, Error(CallbackFailureMsg)) ELSE E1
     ELSE seqCatch(E, i, op.error)

\* what the iteration raised into its catch block, NoError when nothing
seqRaised(E, i) ==
  LET op == E.ops[<<DefaultId(i), 0>>]
  IN IF op.pc = "rejected" THEN op.error
     ELSE IF throwsOnComplete THEN Error(CallbackFailureMsg)
     ELSE NoError

\* ------------------------------------------------------------------------
\* processTask
\* ------------------------------------------------------------------------
\* a routing test that only looks at dependsOn
hasDependsOn ==
  \E k \in 1..Len(Steps) : Len(Steps[k].dependsOn) > 0

\* a routing test that also sends the pipelines with a forEach step to the
\* DAG runner
hasDependenciesOrForEach ==
  \E k \in 1..Len(Steps) :
    Len(Steps[k].dependsOn) > 0 \/ Steps[k].id # "" \/ IsPresent(Steps[k].forEach)

\* task.steps.some((s) => s.dependsOn?.length || s.id)
hasDependencies ==
  \E k \in 1..Len(Steps) : Len(Steps[k].dependsOn) > 0 \/ Steps[k].id # ""

\* single task execution: the pending selectBackend(task) followed by
\* executeWithRetry(task, () => backend.execute(task)), without timeout
SingleKey == <<"", 0>>
SingleOp ==
  [pc |-> "select",
   task |-> [type |-> task.type, backend |-> task.backend, payload |-> task.payload,
             gpu |-> task.gpu, retry |-> task.retry],
   label |-> -1, timeoutMs |-> 0, attempt |-> 0, calls |-> 0,
   sleeps |-> <<>>, value |-> Undefined, error |-> NoError, timedOut |-> FALSE]

NoResult ==
  [steps |-> <<>>, stepResults |-> EmptyRec, stepStatus |-> <<>>,
   finalResult |-> Undefined, parallelGroups |-> <<>>]
Pending == [kind |-> "pending", error |-> NoError, value |-> NoResult]
Returned(value) == [kind |-> "returned", error |-> NoError, value |-> value]
Rejected(error) == [kind |-> "rejected", error |-> error, value |-> NoResult]

\* a PipelineResult whose finalResult is the slot of the first step
dagResultFirstFinal(E, groups) ==
  LET orderedResults ==
        [k \in 1..totalSteps |->
           IF stepIndexToId(k - 1) \in DOMAIN E.results
           THEN E.results[stepIndexToId(k - 1)]
           ELSE Undefined]
  IN [steps |-> orderedResults,
      stepResults |-> E.results,
      stepStatus |-> [k \in 1..Len(stepMapKeys) |-> E.stepStatuses[stepMapKeys[k]]],
      finalResult |-> IF totalSteps > 0 THEN orderedResults[1] ELSE Undefined,
      parallelGroups |-> groups]

\* the PipelineResult built by processPipelineDAG
dagResult(E, groups) ==
  LET orderedResults ==
        [k \in 1..totalSteps |->
           IF stepIndexToId(k - 1) \in DOMAIN E.results
           THEN E.results[stepIndexToId(k - 1)]
           ELSE Undefined]
  IN [steps |-> orderedResults,
      stepResults |-> E.results,
      stepStatus |-> [k \in 1..Len(stepMapKeys) |-> E.stepStatuses[stepMapKeys[k]]],
      finalResult |-> IF totalSteps > 0 THEN orderedResults[totalSteps] ELSE Undefined,
      parallelGroups |-> groups]

\* the PipelineResult built by processPipelineSequential
seqResult(E) ==
  LET n == Len(E.stepResults)
  IN [steps |-> E.stepResults,
      stepResults |-> [id \in {DefaultId(k) : k \in 0..(n - 1)} |->
                         E.stepResults[(CHOOSE k \in 0..(n - 1) : DefaultId(k) = id) + 1]],
      stepStatus |-> [k \in 1..Cardinality(DOMAIN E.stepStatuses) |->
                        E.stepStatuses[DefaultId(k - 1)]],
      finalResult |-> IF n > 0 THEN E.stepResults[n] ELSE Undefined,
      parallelGroups |-> <<>>]

\* remaining without the filter: every declared step is named
remainingStepsUnfiltered(E) == [k \in 1..totalSteps |-> Steps[k].task]

\* the task types named by the deadlock error
remainingSteps(E) ==
  LET idxs == SelectSeq([k \in 1..totalSteps |-> k - 1],
                 LAMBDA i : /\ stepIndexToId(i) \notin E.completed
                            /\ stepIndexToId(i) \notin E.failed)
  IN [k \in 1..Len(idxs) |-> Steps[idxs[k] + 1].task]

RECURSIVE dispatchAll(_, _)
\* runnable.map(({ id, step }) => executeStep(id, step))
dispatchAll(E, ids) ==
  IF ids = <<>> THEN E ELSE dispatchAll(executeStep(E, Head(ids)), Tail(ids))

\* ------------------------------------------------------------------------
\* Actions of the DAG runner's main loop
\* ------------------------------------------------------------------------
\* `completed.size + failed.size < totalSteps`
\* the percentage rounded down instead of to the nearest integer
progressFloor(done, total) == (100 * done) \div total

\* Math.round((done / total) * 100): the nearest integer, a half goes up
progress(done, total) == (200 * done + total) \div (2 * total)

loopContinues(E) == Cardinality(E.completed) + Cardinality(E.failed) < totalSteps

\* a group recorded for every tick, also for a single step
recordGroupAlways(groups, runnable) ==
  IF Len(runnable) > 0 THEN Append(groups, runnable) ELSE groups

\* `if (runnable.length > 1) parallelGroups.push(runnable.map(r => r.id))`
recordGroup(groups, runnable) ==
  IF Len(runnable) > 1 THEN Append(groups, runnable) ELSE groups

\* a tick that looks for undeclared dependency ids before it dispatches
DispatchValidated ==
  /\ pc = "tick"
  /\ loopContinues(Cur)
  /\ LET runnable == getRunnableSteps(Cur)
     IN /\ runnable # <<>>
        /\ IF \E id \in StepIds : \E k \in 1..Len(stepMap(id).dependsOn) :
                stepMap(id).dependsOn[k] \notin StepIds
           THEN /\ pc' = "done"
                /\ outcome' = Rejected(Error(DeadlockMsg(remainingSteps(Cur))))
                /\ UNCHANGED <<executions, parallelGroups, ticks, engineVars>>
           ELSE /\ parallelGroups' = recordGroup(parallelGroups, runnable)
                /\ Commit(dispatchAll(Cur, runnable))
                /\ executions' = runnable
                /\ pc' = "await"
                /\ ticks' = ticks + 1
                /\ outcome' = outcome
  /\ UNCHANGED <<envVars, seqIndex, reported>>

\* a tick with runnable steps: record the group, dispatch them all, await
Dispatch ==
  /\ pc = "tick"
  /\ loopContinues(Cur)
  /\ LET runnable == getRunnableSteps(Cur)
     IN /\ runnable # <<>>
        /\ parallelGroups' = recordGroup(parallelGroups, runnable)
        /\ Commit(dispatchAll(Cur, runnable))
        /\ executions' = runnable
  /\ pc' = "await"
  /\ ticks' = ticks + 1
  /\ UNCHANGED <<envVars, outcome, seqIndex, reported>>

\* a tick without runnable steps: deadlock error, or the 10 ms sleep
NoRunnable ==
  /\ pc = "tick"
  /\ loopContinues(Cur)
  /\ getRunnableSteps(Cur) = <<>>
  /\ IF Cardinality(running) = 0
     THEN /\ pc' = "done"
          /\ outcome' = Rejected(Error(DeadlockMsg(remainingSteps(Cur))))
     ELSE /\ pc' = "tick"
          /\ outcome' = outcome
  /\ UNCHANGED <<envVars, seqIndex, executions, parallelGroups, ticks, reported,
                 engineVars>>

\* the promise executeStep returned for the step is rejected
rejectedExecution(id) == id \in DOMAIN outcomes /\ outcomes[id].rejected

\* a loop that rejects as soon as one execution of the tick has an error
BatchDoneFailFast ==
  /\ pc = "await"
  /\ \/ \A k \in 1..Len(executions) : executions[k] \in DOMAIN outcomes
     \/ \E k \in 1..Len(executions) :
          /\ executions[k] \in DOMAIN outcomes
          /\ (outcomes[executions[k]].rejected \/ outcomes[executions[k]].error # NoError)
  /\ LET settled == SelectSeq(executions, LAMBDA id : id \in DOMAIN outcomes)
         rejections == SelectSeq(settled, rejectedExecution)
         errors == SelectSeq(settled, LAMBDA id : outcomes[id].error # NoError)
     IN IF rejections # <<>>
        THEN /\ pc' = "done"
             /\ outcome' = Rejected(outcomes[rejections[1]].error)
             /\ reported' = reported
        ELSE IF errors # <<>>
        THEN /\ pc' = "done"
             /\ outcome' = Rejected(outcomes[errors[1]].error)
             /\ reported' = reported
        ELSE /\ pc' = "tick"
             /\ outcome' = outcome
             /\ reported' = Append(reported, progress(Cardinality(completed), totalSteps))
  /\ UNCHANGED <<envVars, seqIndex, executions, parallelGroups, ticks, engineVars>>

\* the outcome check that throws the error of the last failed step
BatchDoneLastError ==
  /\ pc = "await"
  /\ \/ \A k \in 1..Len(executions) : executions[k] \in DOMAIN outcomes
     \/ \E k \in 1..Len(executions) : rejectedExecution(executions[k])
  /\ LET rejections == SelectSeq(executions, rejectedExecution)
         errors == SelectSeq(executions, LAMBDA id : outcomes[id].error # NoError)
     IN IF rejections # <<>>
        THEN /\ pc' = "done"
             /\ outcome' = Rejected(outcomes[rejections[1]].error)
             /\ reported' = reported
        ELSE IF errors # <<>>
        THEN /\ pc' = "done"
             /\ outcome' = Rejected(outcomes[errors[Len(errors)]].error)
             /\ reported' = reported
        ELSE /\ pc' = "tick"
             /\ outcome' = outcome
             /\ reported' = Append(reported, progress(Cardinality(completed), totalSteps))
  /\ UNCHANGED <<envVars, seqIndex, executions, parallelGroups, ticks, engineVars>>

\* Promise.all(executions) settled: it rejects as soon as one execution is
\* rejected; when all resolved, throw the first error, else go on
BatchDone ==
  /\ pc = "await"
  /\ \/ \A k \in 1..Len(executions) : executions[k] \in DOMAIN outcomes
     \/ \E k \in 1..Len(executions) : rejectedExecution(executions[k])
  /\ LET rejections == SelectSeq(executions, rejectedExecution)
         errors == SelectSeq(executions, LAMBDA id : outcomes[id].error # NoError)
     IN IF rejections # <<>>
        THEN /\ pc' = "done"
             /\ outcome' = Rejected(outcomes[rejections[1]].error)
             /\ reported' = reported
        ELSE IF errors # <<>>
        THEN /\ pc' = "done"
             /\ outcome' = Rejected(outcomes[errors[1]].error)
             /\ reported' = reported
        ELSE /\ pc' = "tick"
             /\ outcome' = outcome
             /\ reported' = Append(reported, progress(Cardinality(completed), totalSteps))
  /\ UNCHANGED <<envVars, seqIndex, executions, parallelGroups, ticks, engineVars>>

\* the loop is over: emit pipeline:complete and return the PipelineResult
Finish ==
  /\ pc = "tick"
  /\ ~loopContinues(Cur)
  /\ Commit(emit(Cur, "pipeline:complete", ""))
  /\ outcome' = Returned(dagResult(Cur, parallelGroups))
  /\ pc' = "done"
  /\ UNCHANGED <<envVars, seqIndex, executions, parallelGroups, ticks, reported>>

\* ------------------------------------------------------------------------
\* Actions of the sequential runner's loop
\* ------------------------------------------------------------------------
\* an iteration that goes on to the next step without awaiting its call
SeqStepNoAwait ==
  /\ pc = "seq"
  /\ seqIndex < Len(Steps)
  /\ LET E == seqIteration(Cur, seqIndex)
     IN /\ Commit(E)
        /\ IF <<DefaultId(seqIndex), 0>> \notin DOMAIN E.ops /\ throwsOnComplete
           THEN pc' = "done" /\ seqIndex' = seqIndex
                /\ outcome' = Rejected(Error(CallbackFailureMsg))
           ELSE pc' = "seq" /\ seqIndex' = seqIndex + 1 /\ outcome' = outcome
  /\ reported' = Append(reported, progress(seqIndex, Len(Steps)))
  /\ UNCHANGED <<envVars, executions, parallelGroups, ticks>>

\* one iteration of the sequential loop, up to its await; what the callback
\* raises at the step:complete of a skipped step leaves the function
SeqStep ==
  /\ pc = "seq"
  /\ seqIndex < Len(Steps)
  /\ LET E == seqIteration(Cur, seqIndex)
     IN /\ Commit(E)
        /\ IF <<DefaultId(seqIndex), 0>> \in DOMAIN E.ops
           THEN pc' = "seqAwait" /\ seqIndex' = seqIndex /\ outcome' = outcome
           ELSE IF throwsOnComplete
           THEN pc' = "done" /\ seqIndex' = seqIndex
                /\ outcome' = Rejected(Error(CallbackFailureMsg))
           ELSE pc' = "seq" /\ seqIndex' = seqIndex + 1 /\ outcome' = outcome
  /\ reported' = Append(reported, progress(seqIndex, Len(Steps)))
  /\ UNCHANGED <<envVars, executions, parallelGroups, ticks>>

SeqFinish ==
  /\ pc = "seq"
  /\ seqIndex >= Len(Steps)
  /\ Commit(emit(Cur, "pipeline:complete", ""))
  /\ outcome' = Returned(seqResult(Cur))
  /\ pc' = "done"
  /\ UNCHANGED <<envVars, seqIndex, executions, parallelGroups, ticks, reported>>

\* ------------------------------------------------------------------------
\* Pending calls: selectBackend, executeWithRetry, withTimeout
\* ------------------------------------------------------------------------
\* the sequential runner awaits the call of step id
seqAwaits(id) == pc = "seqAwait" /\ id = DefaultId(seqIndex)

\* the step's code still awaits its pending call(s)
stepAwaits(id) ==
  IF ~isPipeline
  THEN pc = "single"
  ELSE IF hasDependencies THEN id \in running ELSE seqAwaits(id)

\* the state after the pending call (id, idx) made a step; E holds the call's
\* new state.  A settled call resumes the code that awaits it.
Advance(E, id, idx) ==
  IF E.ops[<<id, idx>>].pc \notin {"resolved", "rejected"} \/ ~stepAwaits(id)
  THEN Commit(E) /\ UNCHANGED schedVars
  ELSE IF ~isPipeline
  THEN /\ Commit(E)
       /\ pc' = "done"
       /\ outcome' = IF E.ops[<<id, idx>>].pc = "resolved"
                     THEN Returned(E.ops[<<id, idx>>].value)
                     ELSE Rejected(E.ops[<<id, idx>>].error)
       /\ UNCHANGED <<seqIndex, executions, parallelGroups, ticks, reported>>
  ELSE IF hasDependencies
  THEN Commit(resumeStep(E, id, idx)) /\ UNCHANGED schedVars
  ELSE /\ Commit(seqResume(E, seqIndex))
       /\ IF seqRaised(E, seqIndex) # NoError /\ ~Steps[seqIndex + 1].optional
          THEN /\ pc' = "done"
               /\ outcome' = Rejected(seqRaised(E, seqIndex))
               /\ seqIndex' = seqIndex
          ELSE /\ pc' = "seq"
               /\ outcome' = outcome
               /\ seqIndex' = seqIndex + 1
       /\ UNCHANGED <<executions, parallelGroups, ticks, reported>>

\* a timer that only runs while an attempt is at the backend
timerArmedPerAttempt(op) ==
  op.timeoutMs > 0 /\ op.pc = "execute" /\ ~op.timedOut

\* withTimeout's timer is armed for the call
timerArmed(op) ==
  op.timeoutMs > 0 /\ op.pc \in {"select", "execute", "sleep"} /\ ~op.timedOut

\* the error withTimeout rejects with
timeoutError(id, op) == Error(TimeoutMsg(id, op.label, op.timeoutMs))

\* selectBackend settled: an error, or a backend and the first attempt
SelectDone(id, idx) ==
  /\ <<id, idx>> \in DOMAIN ops
  /\ ops[<<id, idx>>].pc = "select"
  /\ \E sel \in selectBackend(ops[<<id, idx>>].task, backends) :
       LET op == IF sel.ok
                 THEN retryEnter(ops[<<id, idx>>])
                 ELSE [ops[<<id, idx>>] EXCEPT !.pc = "rejected", !.error = sel.error]
       IN Advance(onRetry([Cur EXCEPT !.ops[<<id, idx>>] = op], id, op), id, idx)
  /\ UNCHANGED envVars

\* backend.execute resolved
ExecuteResolve(id, idx) ==
  /\ <<id, idx>> \in DOMAIN ops
  /\ ops[<<id, idx>>].pc = "execute"
  /\ \E r \in BackendResults(ops[<<id, idx>>].task) :
       Advance([Cur EXCEPT !.ops[<<id, idx>>].pc = "resolved",
                           !.ops[<<id, idx>>].value = r], id, idx)
  /\ UNCHANGED envVars

\* backend.execute rejected
ExecuteReject(id, idx) ==
  /\ <<id, idx>> \in DOMAIN ops
  /\ ops[<<id, idx>>].pc = "execute"
  /\ LET op == ops[<<id, idx>>]
     IN Advance([Cur EXCEPT !.ops[<<id, idx>>] =
                   retryCatch(op, Error(BackendFailureMsg(id, idx, op.calls)))], id, idx)
  /\ UNCHANGED envVars

\* the backoff sleep is over
SleepDone(id, idx) ==
  /\ <<id, idx>> \in DOMAIN ops
  /\ ops[<<id, idx>>].pc = "sleep"
  /\ LET op == retryNext(ops[<<id, idx>>])
     IN Advance(onRetry([Cur EXCEPT !.ops[<<id, idx>>] = op], id, op), id, idx)
  /\ UNCHANGED envVars

\* withTimeout's timer fires before the call settled
Timeout(id, idx) ==
  /\ <<id, idx>> \in DOMAIN ops
  /\ timerArmed(ops[<<id, idx>>])
  /\ stepAwaits(id)
  /\ LET E == [Cur EXCEPT !.ops[<<id, idx>>].timedOut = TRUE]
         error == timeoutError(id, ops[<<id, idx>>])
     IN IF hasDependencies
        THEN /\ Commit(CatchStep(E, id, error))
             /\ UNCHANGED schedVars
        ELSE /\ Commit(seqCatch(E, seqIndex, error))
             /\ IF ~Steps[seqIndex + 1].optional
                THEN /\ pc' = "done"
                     /\ outcome' = Rejected(error)
                     /\ seqIndex' = seqIndex
                ELSE /\ pc' = "seq"
                     /\ outcome' = outcome
                     /\ seqIndex' = seqIndex + 1
             /\ UNCHANGED <<executions, parallelGroups, ticks, reported>>
  /\ UNCHANGED envVars

\* ------------------------------------------------------------------------
\* The tasks given to processTask
\* ------------------------------------------------------------------------
TaskTypes == <<"ta", "tb", "tc", "td">>

\* dependency graphs, as the (id, dependsOn) of each declared step
Graphs ==
  { << <<"a", <<>>>> >>,
    << <<"a", <<>>>>, <<"b", <<"a">>>> >>,
    << <<"a", <<>>>>, <<"b", <<>>>> >>,
    << <<"a", <<>>>>, <<"b", <<>>>>, <<"c", <<"a", "b">>>> >>,
    << <<"a", <<>>>>, <<"b", <<"a">>>>, <<"c", <<>>>>, <<"d", <<"c">>>> >>,
    << <<"a", <<>>>>, <<"b", <<"a">>>>, <<"c", <<"a">>>>, <<"d", <<"b", "c">>>> >>,
    << <<"a", <<"b">>>>, <<"b", <<"a">>>> >>,
    << <<"a", <<"a">>>> >>,
    << <<"a", <<>>>>, <<"b", <<"zz">>>> >>,
    << <<"a", <<>>>>, <<"b", <<"a", "c">>>>, <<"c", <<"b">>>> >>,
    << <<"", <<>>>>, <<"", <<"step_0">>>> >> }

GraphTask(g, opt) ==
  Task("pipeline", "modal", [url |-> Str("u")],
       [k \in 1..Len(g) |->
          [Step(g[k][1], TaskTypes[k], g[k][2]) EXCEPT !.optional = opt[k]]])

GraphTasks ==
  UNION {{GraphTask(g, opt) : opt \in [1..Len(g) -> BOOLEAN]} : g \in Graphs}

\* sequential pipelines: no step declares an id or a dependsOn
SeqTasks ==
  UNION {{Task("pipeline", "modal", [url |-> Str("u")],
               [k \in 1..n |->
                  [Step("", TaskTypes[k], <<>>) EXCEPT !.optional = opt[k],
                                                        !.input = [url |-> Tpl(<<"payload", "url">>)]]])
          : opt \in [1..n -> BOOLEAN]} : n \in 1..4}

\* the declarations of one step that uses runWhen, timeout and optional
FeatureSteps(id, type, deps) ==
  {[Step(id, type, deps) EXCEPT !.optional = opt, !.timeout = tmo, !.runWhen = rw]
   : opt \in BOOLEAN, tmo \in {0, 2},
     rw \in {NoStr, Lit("on-demand"), Tpl(<<"payload", "flag">>)}}

FeaturePayload == [flag |-> Bool(FALSE), url |-> Str("u")]

\* two steps, in a chain, independent, or sequential
FeatureTasks ==
  {Task("pipeline", "modal", FeaturePayload, <<s1, s2>>)
   : s1 \in FeatureSteps("a", "ta", <<>>),
     s2 \in FeatureSteps("b", "tb", <<"a">>) \cup FeatureSteps("b", "tb", <<>>)
            \cup FeatureSteps("", "tb", <<>>)}
  \cup
  {Task("pipeline", "modal", FeaturePayload, <<s1, s2>>)
   : s1 \in FeatureSteps("", "ta", <<>>), s2 \in FeatureSteps("", "tb", <<>>)}

\* the retry configurations
RetryConfigs ==
  {NoRetry} \cup
  {Retry(a, b, d) : a \in 0..MaxAttempts, b \in {"fixed", "exponential"}, d \in {0, 10}}

\* one or two steps with a retry configuration of the step or of the task
RetryTasks ==
  {[Task("pipeline", "modal", [url |-> Str("u")],
         <<[Step(id, "ta", <<>>) EXCEPT !.retry = r, !.timeout = tmo]>>)
     EXCEPT !.retry = tr]
   : id \in {"a", ""}, r \in RetryConfigs, tmo \in {0, 2},
     tr \in {NoRetry, Retry(2, "fixed", 10)}}
  \cup
  {Task("pipeline", "modal", [url |-> Str("u")],
        <<[Step("a", "ta", <<>>) EXCEPT !.retry = Retry(a, "fixed", 10)],
          [Step("b", "tb", <<>>)
             EXCEPT !.retry = [Retry(b, "exponential", 10) EXCEPT !.maxDelay = md]]>>)
   : a \in 1..MaxAttempts, b \in 1..MaxAttempts, md \in {0, 15}}

\* payload.items of the forEach pipelines
Items(n) == Arr([k \in 1..n |-> Num(10 * k)])

\* the forEach step of the forEach pipelines
ForEachStep(fe, c, opt) ==
  [Step("a", "ta", <<>>) EXCEPT
     !.forEach = fe,
     !.forEachConcurrency = c,
     !.input = [val |-> Tpl(<<"item">>), idx |-> Tpl(<<"index">>)],
     !.optional = opt]

\* a forEach step over payload.items (or over something that is no array),
\* followed by a step that depends on it
\* a forEach step over n items and the step after it; the task-level
\* timeout is set for the pipelines of at most two items
ItemsTasks(n) ==
  {[Task("pipeline", "modal", [items |-> Items(n), url |-> Str("u")],
         <<ForEachStep(Tpl(<<"payload", "items">>), c, opt), Step("b", "tb", <<"a">>)>>)
     EXCEPT !.timeout = tmo]
   : c \in 0..MaxItems, opt \in BOOLEAN, tmo \in IF n <= 2 THEN {0, 2} ELSE {0}}

\* pipelines without id and dependsOn whose first step declares a forEach
SeqForEachTasks ==
  {[Task("pipeline", "modal", [items |-> Items(n), url |-> Str("u")],
         <<[Step("", "ta", <<>>) EXCEPT
              !.forEach = fe,
              !.forEachConcurrency = c,
              !.input = [val |-> Tpl(<<"item">>), idx |-> Tpl(<<"index">>),
                         url |-> Tpl(<<"payload", "url">>)],
              !.optional = opt],
           Step("", "tb", <<>>)>>)
     EXCEPT !.retry = r]
   : n \in {0, 2}, c \in {0, 1}, opt \in BOOLEAN,
     fe \in {Tpl(<<"payload", "items">>), Tpl(<<"payload", "url">>)},
     r \in {NoRetry, Retry(2, "fixed", 10)}}

ForEachTasks ==
  UNION {ItemsTasks(n) : n \in 0..MaxItems}
  \cup SeqForEachTasks
  \cup
  {[Task("pipeline", "modal", [items |-> Items(n), url |-> Str("u")],
         <<ForEachStep(Tpl(<<"payload", "items">>), c, FALSE)>>)
     EXCEPT !.retry = Retry(2, "fixed", 10)]
   : n \in 1..2, c \in 0..2}
  \cup
  {Task("pipeline", "modal",
        [items |-> Items(2), url |-> Str("u"), count |-> Num(2), none |-> Null],
        <<ForEachStep(fe, 0, opt), Step("b", "tb", <<"a">>)>>)
   : fe \in {Tpl(<<"payload", "missing">>), Tpl(<<"payload", "url">>),
             Tpl(<<"payload", "count">>), Tpl(<<"payload", "none">>),
             Tpl(<<"payload">>), Lit("items")},
     opt \in BOOLEAN}

\* payload whose entries are the falsy values and some truthy ones
RunWhenPayload ==
  [f |-> Bool(FALSE), z |-> Num(0), e |-> Str(""), n |-> Null,
   t |-> Bool(TRUE), one |-> Num(1), s |-> Str("x"),
   ea |-> Arr(<<>>), eo |-> Obj(EmptyRec)]

\* the runWhen strings of the runWhen pipelines
RunWhens ==
  {NoStr, Lit("always"), Lit("on-demand"), Lit("never"),
   Tpl(<<"payload", "missing">>), Tpl(<<"payload", "s", "deep">>)}
  \cup {Tpl(<<"payload", k>>) : k \in DOMAIN RunWhenPayload}

\* a step with a runWhen and a step after it (depending on it in the DAG runner)
RunWhenTasks ==
  {Task("pipeline", "modal", RunWhenPayload,
        <<[Step("a", "ta", <<>>) EXCEPT !.runWhen = rw], Step("b", "tb", <<"a">>)>>)
   : rw \in RunWhens}
  \cup
  {Task("pipeline", "modal", RunWhenPayload,
        <<[Step("", "ta", <<>>) EXCEPT !.runWhen = rw], Step("", "tb", <<>>)>>)
   : rw \in RunWhens}

\* one step, in either runner, with a step-level and a task-level timeout
TimeoutTasks ==
  {[Task("pipeline", "modal", [url |-> Str("u")],
         <<[Step(id, "ta", <<>>) EXCEPT !.timeout = tmo, !.optional = opt,
                                        !.retry = rt]>>)
     EXCEPT !.timeout = ttmo]
   : id \in {"a", ""}, tmo \in {0, 2}, ttmo \in {0, 3}, opt \in BOOLEAN,
     rt \in {NoRetry, Retry(2, "fixed", 10)}}

\* the input of a step that reads the payload and the result of the step
\* before it (named ref): paths that hit, paths that miss at the first, at a
\* middle and at the last segment, a path through a string, and a literal
TemplateInput(ref) ==
  [url |-> Tpl(<<"payload", "url">>),
   second |-> Tpl(<<"payload", "items", "1">>),
   count |-> Tpl(<<"payload", "items", "length">>),
   beyond |-> Tpl(<<"payload", "items", "3">>),
   type |-> Tpl(<<"steps", ref, "task">>),
   inner |-> Tpl(<<"steps", ref, "payload", "url">>),
   error |-> Tpl(<<"steps", ref, "error">>),
   nowhere |-> Tpl(<<"nothing", "at", "all">>),
   missing |-> Tpl(<<"steps", ref, "missing", "deep">>),
   through |-> Tpl(<<"payload", "url", "length">>),
   whole |-> Tpl(<<"payload">>),
   plain |-> Lit("payload.url")]

\* two steps, the second reading the first one's result, in either runner
TemplateTasks ==
  {Task("pipeline", "modal", [url |-> Str("u"), items |-> Arr(<<Num(10), Num(20)>>)],
        <<[Step("a", "ta", <<>>) EXCEPT !.optional = opt,
                                       !.input = [url |-> Tpl(<<"payload", "url">>)]],
          [Step("b", "tb", <<"a">>) EXCEPT !.input = TemplateInput("a")]>>)
   : opt \in BOOLEAN}
  \cup
  {Task("pipeline", "modal", [url |-> Str("u"), items |-> Arr(<<Num(10), Num(20)>>)],
        <<[Step("", "ta", <<>>) EXCEPT !.optional = opt,
                                      !.input = [url |-> Tpl(<<"payload", "url">>)]],
          [Step("", "tb", <<>>) EXCEPT !.input = TemplateInput("0")]>>)
   : opt \in BOOLEAN}

\* tasks without steps, and with an empty steps list
SingleTasks ==
  {[Task(type, backend, [url |-> Str("u")], <<>>) EXCEPT !.retry = r, !.timeout = tmo]
   : type \in {"ta", "pipeline"}, backend \in {"modal", "auto", ""},
     r \in RetryConfigs, tmo \in {0, 3}}
  \cup
  {[Task("ta", backend, [url |-> Str("u")], <<>>) EXCEPT !.gpu = TRUE]
   : backend \in {"modal", "auto"}}

Scenario(t, names) == [task |-> t, backends |-> Registered(names)]

GraphScenarios ==
  {Scenario(t, <<"modal">>) : t \in GraphTasks \cup SeqTasks}
  \cup {Scenario(t, <<"ray">>) : t \in {GraphTask(g, [k \in 1..Len(g) |-> FALSE]) : g \in Graphs}}
FeatureScenarios == {Scenario(t, <<"modal">>) : t \in FeatureTasks}
RetryScenarios == {Scenario(t, <<"modal">>) : t \in RetryTasks}
ForEachScenarios == {Scenario(t, <<"modal">>) : t \in ForEachTasks}
TimeoutScenarios == {Scenario(t, <<"modal">>) : t \in TimeoutTasks}
RunWhenScenarios == {Scenario(t, <<"modal">>) : t \in RunWhenTasks}
TemplateScenarios == {Scenario(t, <<"modal">>) : t \in TemplateTasks}
SingleScenarios ==
  {Scenario(t, registry) : t \in SingleTasks, registry \in {<<"modal">>, <<"ray", "modal">>}}

Scenarios ==
  GraphScenarios \cup FeatureScenarios \cup RetryScenarios \cup ForEachScenarios
  \cup TimeoutScenarios \cup RunWhenScenarios \cup SingleScenarios
  \cup TemplateScenarios

\* ------------------------------------------------------------------------
\* Specification
\* ------------------------------------------------------------------------
\* nothing has been dispatched, emitted or reported
Fresh ==
  /\ outcome = Pending
  /\ running = {}
  /\ completed = {}
  /\ failed = {}
  /\ results = EmptyRec
  /\ stepResults = <<>>
  /\ seqIndex = 0
  /\ forEachLocal = EmptyRec
  /\ executions = <<>>
  /\ outcomes = EmptyRec
  /\ parallelGroups = <<>>
  /\ emitted = EmptyRec
  /\ entered = EmptyRec
  /\ ticks = 0
  /\ reported = <<>>
  /\ clock = 0

\* processTask(task) was called and runs up to its first await
InitOf(scenarios) ==
  /\ \E sc \in scenarios : task = sc.task /\ backends = sc.backends
  /\ pc = IF ~isPipeline THEN "single" ELSE IF hasDependencies THEN "tick" ELSE "seq"
  /\ stepStatuses = IF hasDependencies
                    THEN [id \in StepIds |-> PendingStatus(id, stepMap(id).task)]
                    ELSE EmptyRec
  /\ ops = IF isPipeline THEN EmptyRec ELSE Put(EmptyRec, SingleKey, SingleOp)
  /\ answers = NoAnswers
  /\ history = <<>>
  /\ selections = <<>>
  /\ Fresh

Init == InitOf(Scenarios)

SelectDoneSome == \E key \in DOMAIN ops : SelectDone(key[1], key[2])
ExecuteResolveSome == \E key \in DOMAIN ops : ExecuteResolve(key[1], key[2])
ExecuteRejectSome == \E key \in DOMAIN ops : ExecuteReject(key[1], key[2])
SleepDoneSome == \E key \in DOMAIN ops : SleepDone(key[1], key[2])
TimeoutSome == \E key \in DOMAIN ops : Timeout(key[1], key[2])

Next ==
  \/ Dispatch
  \/ NoRunnable
  \/ BatchDone
  \/ Finish
  \/ SeqStep
  \/ SeqFinish
  \/ SelectDoneSome
  \/ ExecuteResolveSome
  \/ ExecuteRejectSome
  \/ SleepDoneSome
  \/ TimeoutSome

Spec == Init /\ [][Next]_vars

\* every pending call settles or times out and the event loop runs whatever
\* continuation is ready: a step of the program is taken while one is possible
FairSpec == Init /\ [][Next]_vars /\ WF_vars(Next)

\* the pipelines run with an event callback that raises at step:complete
CallbackScenarios ==
  {[s EXCEPT !.task.onEvent = "throws on step:complete"]
   : s \in GraphScenarios \cup RunWhenScenarios \cup TimeoutScenarios}

CallbackInit == InitOf(CallbackScenarios)

CallbackSpec == CallbackInit /\ [][Next]_vars

\* pipelines in which two declarations have the same id, next to the others
DuplicateGraphs ==
  { << <<"step_1", <<>>>>, <<"", <<>>>> >>,
    << <<"a", <<>>>>, <<"a", <<>>>> >>,
    << <<"a", <<>>>>, <<"b", <<"a">>>>, <<"b", <<"a">>>> >>,
    << <<"a", <<"a">>>>, <<"a", <<>>>> >>,
    << <<"a", <<>>>>, <<"a", <<"a">>>> >>,
    << <<"a", <<"b">>>>, <<"b", <<>>>>, <<"a", <<>>>> >>,
    << <<"", <<>>>>, <<"b", <<>>>>, <<"step_0", <<"b">>>> >> }

DuplicateTasks ==
  UNION {{GraphTask(g, opt) : opt \in [1..Len(g) -> BOOLEAN]} : g \in DuplicateGraphs}

DuplicateScenarios ==
  {Scenario(t, names) : t \in DuplicateTasks, names \in {<<"modal">>, <<"ray">>}}

DuplicateInit == InitOf(Scenarios \cup DuplicateScenarios)

DuplicateSpec == DuplicateInit /\ [][Next]_vars

\* ------------------------------------------------------------------------
\* selectBackend alone: a registry and a task are given, the backends
\* answer, the call settles
\* ------------------------------------------------------------------------
BackendNames == {"modal", "ray", "local"}
\* the names used while selections are in flight
ServedNames == {"modal", "ray"}

\* the registries of at most MaxBackends backends, in every insertion order
Registries ==
  {Registered(names) :
     names \in {q \in UNION {[1..n -> BackendNames] : n \in 0..MaxBackends} :
                  \A i, j \in 1..Len(q) : i # j => q[i] # q[j]}}

\* tasks that name a backend (registered or not), "auto", or none
SelectTasks ==
  {[Task("ta", backend, [url |-> Str("u")], <<>>) EXCEPT !.gpu = gpu]
   : backend \in BackendNames \cup {"auto", ""}, gpu \in BOOLEAN}

SelectInit ==
  /\ task \in SelectTasks
  /\ backends \in Registries
  /\ pc = "selecting"
  /\ stepStatuses = EmptyRec
  /\ ops = EmptyRec
  /\ answers = NoAnswers
  /\ history = <<>>
  /\ selections = <<>>
  /\ Fresh

\* selectBackend(task) settles: the backend it resolves with, or its error
SelectCall ==
  /\ pc = "selecting"
  /\ \E given \in Answers(task, backends) :
       LET sel == select(task, backends, given)
       IN /\ answers' = given
          /\ outcome' = IF sel.ok THEN Returned(sel.backend) ELSE Rejected(sel.error)
  /\ pc' = "done"
  /\ UNCHANGED <<task, backends, history, selections, seqIndex, executions,
                 parallelGroups, ticks, reported, engineVars>>

SelectNext == SelectCall

SelectSpec == SelectInit /\ [][SelectNext]_vars

\* ------------------------------------------------------------------------
\* The registry alone: registerBackend, unregisterBackend, clearBackends
\* called in any order on the module's Map, which starts empty
\* ------------------------------------------------------------------------
BackendObjs == 1..2

RegisterOp(backend) == [op |-> "register", name |-> backend.name, backend |-> backend]
UnregisterOp(name) == [op |-> "unregister", name |-> name, backend |-> NoBackend]
ClearOp == [op |-> "clear", name |-> "", backend |-> NoBackend]

RegistryInit ==
  /\ task = Task("ta", "auto", EmptyRec, <<>>)
  /\ backends = <<>>
  /\ pc = "idle"
  /\ stepStatuses = EmptyRec
  /\ ops = EmptyRec
  /\ answers = NoAnswers
  /\ history = <<>>
  /\ selections = <<>>
  /\ Fresh

\* what the registry calls leave alone
RegistryUnchanged ==
  UNCHANGED <<task, answers, pc, seqIndex, executions, parallelGroups, ticks, reported,
              engineVars>>

\* the names and the objects the registry calls are made with
CallNames == IF pc = "idle" THEN BackendNames ELSE ServedNames
CallObjs == IF pc = "idle" THEN BackendObjs ELSE {2}
CallLimit == IF pc = "idle" THEN MaxOps ELSE MaxServedOps

RegisterBackend ==
  /\ pc \in {"idle", "serving"}
  /\ Len(history) < CallLimit
  /\ \E name \in CallNames, obj \in CallObjs :
       /\ backends' = registerBackend(backends, Backend(name, obj))
       /\ history' = Append(history, RegisterOp(Backend(name, obj)))
       /\ selections' = [c \in 1..Len(selections) |->
                           seesRegister(selections[c], Backend(name, obj))]
  /\ outcome' = Returned(Undefined)
  /\ RegistryUnchanged

UnregisterBackend ==
  /\ pc \in {"idle", "serving"}
  /\ Len(history) < CallLimit
  /\ \E name \in CallNames :
       /\ backends' = unregisterBackend(backends, name)
       /\ history' = Append(history, UnregisterOp(name))
       /\ outcome' = Returned(Bool(name \in Names(backends)))
       /\ selections' = [c \in 1..Len(selections) |->
                           seesUnregister(selections[c], backends, name)]
  /\ RegistryUnchanged

ClearBackends ==
  /\ pc \in {"idle", "serving"}
  /\ Len(history) < CallLimit
  /\ backends' = <<>>
  /\ history' = Append(history, ClearOp)
  /\ selections' = [c \in 1..Len(selections) |-> seesClear(selections[c])]
  /\ outcome' = Returned(Undefined)
  /\ RegistryUnchanged

RegistryNext == RegisterBackend \/ UnregisterBackend \/ ClearBackends

RegistrySpec == RegistryInit /\ [][RegistryNext]_vars

\* ------------------------------------------------------------------------
\* The registry under concurrent pipelines: selectBackend calls suspended at
\* their health and resource checks while the registry is changed
\* ------------------------------------------------------------------------
\* a task that names a backend, one that leaves the choice to the registry,
\* and one that also requires a GPU
ServedTasks ==
  {Task("ta", "modal", [url |-> Str("u")], <<>>),
   Task("ta", "auto", [url |-> Str("u")], <<>>),
   [Task("ta", "auto", [url |-> Str("u")], <<>>) EXCEPT !.gpu = TRUE]}

ServingInit ==
  /\ task = Task("ta", "auto", EmptyRec, <<>>)
  /\ backends \in {Registered(<<>>), Registered(<<"modal">>), Registered(<<"modal", "ray">>)}
  /\ pc = "serving"
  /\ stepStatuses = EmptyRec
  /\ ops = EmptyRec
  /\ answers = NoAnswers
  /\ history = <<>>
  /\ selections = <<>>
  /\ Fresh

\* what the steps of a selectBackend call leave alone
SelectionUnchanged ==
  UNCHANGED <<task, backends, answers, history, schedVars, engineVars>>

\* a pipeline calls selectBackend(t): the call runs to its first await
StartSelect ==
  /\ pc = "serving"
  /\ Len(selections) < MaxCalls
  /\ \E t \in ServedTasks : selections' = Append(selections, startSelection(t, backends))
  /\ SelectionUnchanged

\* backend.isHealthy() of a suspended call settles, and the call runs on to
\* its next await or to its end
HealthAnswer ==
  /\ pc = "serving"
  /\ \E c \in 1..Len(selections), answer \in HealthAnswers :
       /\ selections[c].pc = "health"
       /\ IF isNamed(selections[c].task)
          THEN selections' = [selections EXCEPT ![c] = namedHealth(@, answer)]
          ELSE LET sel == pushHealthy(selections[c], answer)
               IN IF hasNext(sel, backends)
                  THEN selections' = [selections EXCEPT ![c] = visitNext(sel, backends)]
                  ELSE \E has \in HasChoices(sel, backends) :
                         selections' = [selections EXCEPT ![c] = afterLoop(sel, has)]
  /\ SelectionUnchanged

\* backend.getResources() of a suspended call settles
ResourcesAnswer ==
  /\ pc = "serving"
  /\ \E c \in 1..Len(selections), answer \in ResourceAnswers \ {"absent"} :
       /\ selections[c].pc = "resources"
       /\ selections' = [selections EXCEPT ![c] = resourcesAnswer(@, answer)]
  /\ SelectionUnchanged

ServingNext ==
  \/ StartSelect
  \/ HealthAnswer
  \/ ResourcesAnswer
  \/ RegisterBackend
  \/ UnregisterBackend
  \/ ClearBackends

ServingSpec == ServingInit /\ [][ServingNext]_vars

\* ------------------------------------------------------------------------
\* Properties
\* ------------------------------------------------------------------------
\* step:start was emitted for the step
Started(id) == Count(emitted, <<"step:start", id>>) > 0

\* a backend.execute call was started for the step
Called(id) == \E key \in DOMAIN ops : key[1] = id /\ ops[key].calls > 0

\* the declared dependencies of a step, as a set
DepsOf(id) == {stepMap(id).dependsOn[k] : k \in 1..Len(stepMap(id).dependsOn)}

\* the dependency reached an outcome that counts as completed
CountsAsCompleted(d) ==
  /\ d \in completed
  /\ d \in DOMAIN stepStatuses
  /\ stepStatuses[d].status \in {"completed", "skipped"}

C1_StartStep ==
  hasDependencies =>
    \A id \in StepIds :
      (((~Started(id)) /\ Started(id)') \/ ((~Called(id)) /\ Called(id)'))
        => \A d \in DepsOf(id) : CountsAsCompleted(d)
C1_StartedInv ==
  hasDependencies =>
    \A id \in StepIds :
      (Started(id) \/ Called(id)) => \A d \in DepsOf(id) : CountsAsCompleted(d)

\* C1: in the DAG runner every dependency of a step counts as completed
\* (completed, skipped by runWhen, skipped as optional failure) in the state
\* from which the step's step:start is emitted and from which a backend call
\* for the step is started, and it still does in every later state.
C1_DependenciesFirst == [][C1_StartStep]_vars /\ []C1_StartedInv

\* a step with two dependencies has a backend call in flight
C1_Witness ==
  \E id \in StepIds :
    /\ hasDependencies
    /\ Cardinality(DepsOf(id)) = 2
    /\ Called(id)
    /\ \E d \in DepsOf(id) : stepStatuses[d].status = "skipped"

\* ids reachable from id along dependsOn, in at most n hops
RECURSIVE DepClosure(_, _)
DepClosure(ids, n) ==
  IF n = 0 THEN ids
  ELSE DepClosure(ids \cup UNION {DepsOf(x) : x \in ids \cap StepIds}, n - 1)

\* the graph has a cycle (a step can reach itself) or names an undeclared id
HasCycle == \E id \in StepIds : id \in DepClosure(DepsOf(id), totalSteps)
HasMissingDep == \E id \in StepIds : \E d \in DepsOf(id) : d \notin StepIds

DeadlockRaised ==
  outcome.kind = "rejected" /\ outcome.error.message.kind = "Pipeline deadlock"

\* the declared steps that are neither completed nor failed
Unresolved == {k \in 1..totalSteps : stepIndexToId(k - 1) \notin completed \cup failed}

\* the deadlock message names the task types of exactly the unresolved steps
NamesUnresolved(list) ==
  /\ Len(list) = Cardinality(Unresolved)
  /\ \A k \in 1..totalSteps : (\E j \in 1..Len(list) : list[j] = Steps[k].task) <=> k \in Unresolved

\* no step is runnable and no step is running, by the steps' statuses
NothingRunnableNorRunning ==
  /\ running = {}
  /\ \A id \in StepIds :
       stepStatuses[id].status = "pending" => \E d \in DepsOf(id) : ~CountsAsCompleted(d)
  /\ \A id \in StepIds : stepStatuses[id].status # "running"

C2_NeverReturns ==
  (hasDependencies /\ (HasCycle \/ HasMissingDep)) =>
     /\ outcome.kind # "returned"
     /\ (pc = "done" /\ failed = {}) => DeadlockRaised
C2_Message ==
  DeadlockRaised =>
     /\ NamesUnresolved(outcome.error.message.list)
     /\ NothingRunnableNorRunning
C2_RaisedExactlyWhen ==
  /\ (DeadlockRaised' /\ ~DeadlockRaised) =>
        (pc = "tick" /\ loopContinues(Cur) /\ NothingRunnableNorRunning)
  /\ (pc = "tick" /\ loopContinues(Cur) /\ NothingRunnableNorRunning /\ pc' # pc)
        => DeadlockRaised'

\* C2: a DAG pipeline with a cycle or an undeclared dependency id never
\* returns a PipelineResult; when no required step failed it ends with the
\* deadlock error; the deadlock error is raised exactly from a tick in which
\* nothing is runnable and nothing is running, and names the task types of
\* exactly the steps that are neither completed nor failed.
C2_Deadlock == []C2_NeverReturns /\ []C2_Message /\ [][C2_RaisedExactlyWhen]_vars

\* a pipeline with a cycle ended with the deadlock error after one of its
\* steps had completed
C2_Witness ==
  /\ hasDependencies
  /\ HasCycle
  /\ pc = "done"
  /\ DeadlockRaised
  /\ completed # {}
  /\ Len(outcome.error.message.list) = 2

\* the declaration a status record belongs to, in either runner
Decl(id) ==
  IF hasDependencies
  THEN stepMap(id)
  ELSE Steps[(CHOOSE k \in 0..(totalSteps - 1) : DefaultId(k) = id) + 1]

\* position (from 0) of the first declaration of the id
DeclIndex(id) ==
  IF hasDependencies
  THEN CHOOSE k \in 0..(totalSteps - 1) :
         stepIndexToId(k) = id /\ \A j \in 0..(k - 1) : stepIndexToId(j) # id
  ELSE CHOOSE k \in 0..(totalSteps - 1) : DefaultId(k) = id

\* the step's forEach template did not resolve to an array (DAG runner)
ForEachMismatch(id) ==
  /\ hasDependencies
  /\ Started(id)
  /\ IsPresent(Decl(id).forEach)
  /\ ~IsArray(resolveTemplate(Decl(id).forEach, Context(Cur)))

\* the step's work failed: a call of the step was rejected (selection error,
\* backend error after the retries) or timed out, or the forEach type check failed
StepFailure(id) ==
  \/ \E key \in DOMAIN ops : key[1] = id /\ (ops[key].pc = "rejected" \/ ops[key].timedOut)
  \/ ForEachMismatch(id)

FailedSteps == {id \in DOMAIN stepStatuses : stepStatuses[id].status = "failed"}

\* the failed step that is declared first
FirstFailed == CHOOSE id \in FailedSteps : \A x \in FailedSteps : DeclIndex(id) <= DeclIndex(x)

C3_StatusFailed ==
  \A id \in DOMAIN stepStatuses :
    (StepFailure(id) /\ ~Decl(id).optional) => stepStatuses[id].status = "failed"

C3_NoLaterDispatch ==
  FailedSteps # {} =>
    /\ ticks' = ticks
    /\ \A id \in (DOMAIN stepStatuses) \cup StepIds \cup {DefaultId(k) : k \in 0..(totalSteps - 1)} :
         Count(entered, id) = 0 => (Count(entered', id) = 0 /\ ~Called(id)')

C3_RejectsWithThatError ==
  \A id \in FailedSteps :
    /\ outcome.kind # "returned"
    /\ pc = "done" => (outcome.kind = "rejected" /\ outcome.error.message = stepStatuses[id].error)

\* C3 as stated: when a non-optional step fails, processTask rejects with
\* that step's error, the step's status is failed, and no step that was not
\* yet dispatched is dispatched or reaches the backend afterwards.
C3_Original ==
  []C3_StatusFailed /\ []C3_RejectsWithThatError /\ [][C3_NoLaterDispatch]_vars

C3_RejectsWithFirstError ==
  FailedSteps # {} =>
    /\ outcome.kind # "returned"
    /\ pc = "done" =>
         (outcome.kind = "rejected" /\ outcome.error.message = stepStatuses[FirstFailed].error)
    /\ ~hasDependencies => Cardinality(FailedSteps) = 1

\* C3 amended: when a non-optional step fails its status is failed, and
\* processTask rejects with the error of a failed non-optional step: in the
\* DAG runner the one declared first among the steps that failed in the
\* aborting tick, in the sequential runner the only failed step; no step that
\* was not yet dispatched is dispatched or reaches the backend afterwards.
C3_RequiredFailureAborts ==
  []C3_StatusFailed /\ []C3_RejectsWithFirstError /\ [][C3_NoLaterDispatch]_vars

\* two required steps failed in one tick with different errors, the
\* pipeline rejected and a third step was never dispatched
C3_Witness ==
  /\ pc = "done"
  /\ outcome.kind = "rejected"
  /\ Cardinality(FailedSteps) = 2
  /\ \E id \in FailedSteps : stepStatuses[id].error # outcome.error.message
  /\ \E id \in StepIds : Count(entered, id) = 0

\* the slot of the step in the results
Slot(id) ==
  IF hasDependencies
  THEN IF id \in DOMAIN results THEN results[id] ELSE Undefined
  ELSE IF DeclIndex(id) < Len(stepResults) THEN stepResults[DeclIndex(id) + 1] ELSE Undefined

C4_Absorbed ==
  \A id \in DOMAIN stepStatuses :
    Decl(id).optional =>
      /\ stepStatuses[id].status # "failed"
      /\ id \notin failed
      /\ StepFailure(id) =>
           /\ stepStatuses[id].status = "skipped"
           /\ stepStatuses[id].error # NoMsg
           /\ Slot(id) = Obj([error |-> MsgStr(stepStatuses[id].error), skipped |-> Bool(TRUE)])
           /\ hasDependencies => id \in completed
           /\ ~hasDependencies => (seqIndex > DeclIndex(id))

C4_NeverRejects ==
  /\ (isPipeline /\ outcome.kind = "rejected") =>
       \/ DeadlockRaised /\ \A k \in Unresolved :
                              \E d \in DepsOf(stepIndexToId(k - 1)) : d \notin completed
       \/ \E id \in FailedSteps :
            ~Decl(id).optional /\ outcome.error.message = stepStatuses[id].error
  /\ (isPipeline /\ outcome.kind = "returned") =>
       /\ Cardinality(DOMAIN stepStatuses) = totalSteps
       /\ \A id \in DOMAIN stepStatuses : stepStatuses[id].status \in {"completed", "skipped"}

\* C4: an optional step that fails (backend error, timeout, selection error,
\* forEach type mismatch) is never failed: its status is skipped with the
\* error text, its slot is {error, skipped: true}, it counts as completed (the
\* sequential loop goes on), a rejection is never its error, a deadlock never
\* names a step whose dependencies are all completed, and a returned pipeline
\* has run every step.
C4_OptionalFailure == C4_Absorbed /\ C4_NeverRejects

\* an optional step timed out, the step that depends on it completed and
\* the pipeline returned
C4_Witness ==
  /\ hasDependencies
  /\ pc = "done"
  /\ outcome.kind = "returned"
  /\ \E id \in StepIds, t \in StepIds :
       /\ Decl(id).optional
       /\ stepStatuses[id].status = "skipped"
       /\ stepStatuses[id].error.kind = "timed out after"
       /\ id \in DepsOf(t)
       /\ stepStatuses[t].status = "completed"

\* the set of ids of a group
GroupSet(g) == {g[k] : k \in 1..Len(g)}

\* runnable by the statuses: pending and every dependency counts as completed
RunnableNow ==
  {id \in StepIds : /\ stepStatuses[id].status = "pending"
                    /\ id \notin running
                    /\ \A d \in DepsOf(id) : CountsAsCompleted(d)}

IsDiamond ==
  /\ totalSteps = 4
  /\ [k \in 1..4 |-> Steps[k].id] = <<"a", "b", "c", "d">>
  /\ [k \in 1..4 |-> Steps[k].dependsOn] = << <<>>, <<"a">>, <<"a">>, <<"b", "c">> >>

C5_Tick ==
  (ticks' = ticks + 1) =>
    /\ RunnableNow # {}
    /\ \A id \in StepIds :
         Count(entered', id) = Count(entered, id) + (IF id \in RunnableNow THEN 1 ELSE 0)
    /\ \A id \in RunnableNow :
         id \in running' \/ stepStatuses'[id].status \in {"completed", "skipped", "failed"}
    /\ IF Cardinality(RunnableNow) > 1
       THEN /\ Len(parallelGroups') = Len(parallelGroups) + 1
            /\ SubSeq(parallelGroups', 1, Len(parallelGroups)) = parallelGroups
            /\ GroupSet(parallelGroups'[Len(parallelGroups')]) = RunnableNow
       ELSE parallelGroups' = parallelGroups
    /\ IsDiamond /\ "b" \in RunnableNow => {"b", "c"} \subseteq running'

C5_Groups ==
  /\ \A k \in 1..Len(parallelGroups) :
       LET g == parallelGroups[k]
       IN /\ Len(g) >= 2
          /\ Cardinality(GroupSet(g)) = Len(g)
          /\ \A x \in GroupSet(g) : DepsOf(x) \cap GroupSet(g) = {}
  /\ IsDiamond =>
       /\ Started("b") <=> Started("c")
       /\ Started("b") => \E k \in 1..Len(parallelGroups) :
                             GroupSet(parallelGroups[k]) = {"b", "c"}

\* C5: a tick dispatches exactly the steps that are runnable (each enters
\* executeStep in that tick and is running or already terminal after it),
\* appends their ids as one group exactly when there is more than one; every
\* group has at least two distinct ids none of which depends on another one
\* of the group; in the diamond b and c are running together and form a group.
C5_ParallelDispatch == [][C5_Tick]_vars /\ []C5_Groups

\* the diamond with b and c running together, recorded as the only group
C5_Witness ==
  /\ IsDiamond
  /\ {"b", "c"} \subseteq running
  /\ parallelGroups = << <<"b", "c">> >>

\* C6: in the DAG runner executeStep is entered, and step:start emitted, at
\* most once per step; a step that is no forEach step has one pending call
\* with at most one backend call, or at most retry.attempts when it retries;
\* a forEach step has at most one pending call per item.
C6_DispatchedOnce ==
  hasDependencies =>
    \A id \in StepIds :
      /\ Count(entered, id) <= 1
      /\ Count(emitted, <<"step:start", id>>) <= 1
      /\ \A key \in DOMAIN ops :
           key[1] = id =>
             /\ ops[key].calls <= (IF StepRetry(stepMap(id)).present /\ StepRetry(stepMap(id)).attempts > 1
                                   THEN StepRetry(stepMap(id)).attempts ELSE 1)
             /\ IF IsPresent(stepMap(id).forEach)
                THEN key[2] \in 0..(Len(forEachLocal[id].items) - 1)
                ELSE key[2] = 0

\* the diamond returned, every step entered once
C6_Witness ==
  /\ IsDiamond
  /\ pc = "done"
  /\ outcome.kind = "returned"
  /\ \A id \in StepIds : Count(entered, id) = 1 /\ Called(id)

C7_Bounded ==
  /\ ticks <= totalSteps
  /\ ticks <= Cardinality({id \in StepIds : Count(entered, id) > 0})
  /\ pc = "tick" => running = {}

C7_TickProgress ==
  (pc = "tick" /\ pc' # "tick") =>
    \/ /\ ticks' = ticks + 1
       /\ \E id \in StepIds : Count(entered, id) = 0 /\ Count(entered', id) = 1
    \/ /\ ticks' = ticks
       /\ pc' = "done"
       /\ \/ DeadlockRaised'
          \/ outcome'.kind = "returned"

C7_Settled == pc = "done" /\ outcome.kind \in {"returned", "rejected"}

\* C7: when every pending call settles or times out, every pipeline
\* execution ends with a PipelineResult or an error, for every graph; a tick
\* either dispatches at least one step that was not dispatched before, or
\* raises the deadlock error, or leaves the loop with the result; the loop
\* is never at a tick while a step is running (the 10 ms wait is never
\* taken) and the dispatching ticks are at most as many as the steps.
C7_Terminates == []C7_Bounded /\ [][C7_TickProgress]_vars /\ <>C7_Settled

\* a cyclic graph behind a root step: one dispatching tick, then the deadlock
C7_Witness ==
  /\ HasCycle
  /\ ticks = 1
  /\ pc = "done"
  /\ DeadlockRaised

\* the forEach steps of a DAG pipeline whose template resolves to an array
ForEachIds ==
  {id \in StepIds : /\ hasDependencies
                    /\ IsPresent(stepMap(id).forEach)
                    /\ IsArray(resolveTemplate(stepMap(id).forEach, Context(Cur)))}

\* the items of the forEach step
ItemsOf(id) == resolveTemplate(stepMap(id).forEach, Context(Cur)).v

\* the pending calls of a step
KeysOf(id) == {key \in DOMAIN ops : key[1] = id}

\* what the backend answers for item k (from 0) of a step whose input is
\* {val: "{{item}}", idx: "{{index}}"}
ItemPayload(id, k) == [val |-> ItemsOf(id)[k + 1], idx |-> Num(k)]
ItemResult(id, k) ==
  Obj([task |-> Str(stepMap(id).task), payload |-> Obj(ItemPayload(id, k))])

\* C8: item k of a forEach step is executed with item = items[k] and
\* index = k; the result of the completed step is the array of the n item
\* results in the order of the items, whatever the order in which the items
\* finish and whatever forEachConcurrency; for n = 0 the step is completed
\* with result [] as soon as it is dispatched, without any backend call.
C8_ForEachResult ==
  \A id \in ForEachIds :
    LET n == Len(ItemsOf(id))
    IN /\ \A key \in KeysOf(id) :
            /\ key[2] \in 0..(n - 1)
            /\ ops[key].task.payload = ItemPayload(id, key[2])
            /\ ops[key].pc = "resolved" => ops[key].value = ItemResult(id, key[2])
       /\ stepStatuses[id].status = "completed" =>
            /\ stepStatuses[id].result = Arr([k \in 1..n |-> ItemResult(id, k - 1)])
            /\ results[id] = stepStatuses[id].result
            /\ \A k \in 0..(n - 1) : <<id, k>> \in DOMAIN ops /\ ops[<<id, k>>].pc = "resolved"
       /\ (n = 0 /\ Count(entered, id) > 0) =>
            /\ stepStatuses[id].status = "completed"
            /\ stepStatuses[id].result = Arr(<<>>)
            /\ KeysOf(id) = {}

\* three items in batches of two: the step completed with three results
C8_Witness ==
  \E id \in ForEachIds :
    /\ Len(ItemsOf(id)) = 3
    /\ stepMap(id).forEachConcurrency = 2
    /\ stepStatuses[id].status = "completed"
    /\ Len(stepStatuses[id].result.v) = 3

\* step.forEachConcurrency || items.length, for the declared step
Limit(id) ==
  IF stepMap(id).forEachConcurrency >= 1
  THEN stepMap(id).forEachConcurrency
  ELSE Len(ItemsOf(id))

\* the item executions of the step that have started and not settled
InFlight(id) == {key \in KeysOf(id) : ops[key].pc \in {"select", "execute", "sleep"}}

\* C9: the item executions of a forEach step in flight are never more than
\* c (forEachConcurrency, or the number of items when absent); the items of
\* a batch start together, and an item has started only if every item of
\* every earlier batch has settled (successfully); c = 1 runs one item at a
\* time, c absent or c >= n starts all the items together.
C9_ConcurrencyLimit ==
  \A id \in ForEachIds :
    LET n == Len(ItemsOf(id))
        c == Limit(id)
    IN /\ Cardinality(InFlight(id)) <= c
       /\ \A key \in KeysOf(id) :
            /\ \A j \in 0..(n - 1) :
                 (j \div c = key[2] \div c) => <<id, j>> \in DOMAIN ops
            /\ \A j \in 0..(n - 1) :
                 (j \div c < key[2] \div c) =>
                    (<<id, j>> \in DOMAIN ops /\ ops[<<id, j>>].pc = "resolved")
       /\ (c >= n /\ Count(entered, id) > 0) => Cardinality(KeysOf(id)) = n
       /\ c = 1 => Cardinality(InFlight(id)) <= 1

\* three items, limit two: the third is in flight after the first two settled
C9_Witness ==
  \E id \in ForEachIds :
    /\ Len(ItemsOf(id)) = 3
    /\ Limit(id) = 2
    /\ InFlight(id) = {<<id, 2>>}
    /\ ops[<<id, 0>>].pc = "resolved"
    /\ ops[<<id, 1>>].pc = "resolved"

\* the retry configuration in force for the pending call: the step's, else the task's
RetryOf(key) ==
  IF ~isPipeline
  THEN task.retry
  ELSE LET step == Decl(key[1]) IN IF step.retry.present THEN step.retry ELSE task.retry

\* retry.attempts when the retry loop is used, else 1
AttemptsOf(key) ==
  IF RetryOf(key).present /\ RetryOf(key).attempts > 1 THEN RetryOf(key).attempts ELSE 1

\* the sleep after failed attempt k
ExpectedSleep(key, k) ==
  LET r == RetryOf(key)
      d == IF r.delay = 0 THEN 1000 ELSE r.delay
  IN IF r.backoff = "exponential" THEN d * 2^(k - 1) ELSE d

C10_Attempts ==
  \A key \in DOMAIN ops :
    LET op == ops[key]
        a == AttemptsOf(key)
    IN /\ op.calls <= a
       /\ op.pc \in {"execute", "sleep", "resolved"} => op.calls >= 1
       /\ op.pc = "sleep" => op.calls < a
       /\ Len(op.sleeps) = (IF op.pc = "sleep" THEN op.calls
                            ELSE IF op.calls = 0 THEN 0 ELSE op.calls - 1)
       /\ \A k \in 1..Len(op.sleeps) : op.sleeps[k] = ExpectedSleep(key, k)
       /\ op.pc = "rejected" =>
            \/ op.calls = 0 /\ op.error.message.kind \in {"Backend not registered", "Backend is not healthy",
                                                         "health check failure", "resources failure",
                                                         "No healthy backend available"}
            \/ op.calls = a /\ op.error = Error(BackendFailureMsg(key[1], key[2], a))

C10_Settled ==
  \A key \in DOMAIN ops :
    ops[key].pc \in {"resolved", "rejected"} => (key \in DOMAIN ops' /\ ops'[key] = ops[key])

\* C10: a pending call invokes the executor at most retry.attempts times
\* (once when retry is absent or attempts <= 1), sleeps after every failed
\* attempt but the last (fixed: delay, exponential: delay * 2^(k-1) after
\* failed attempt k, delay 1000 when it is 0 or absent), is rejected after
\* the last attempt with the last error, and once it has resolved or been
\* rejected it makes no further attempt; every step and every forEach item
\* has a pending call, and so a count of attempts, of its own.
C10_Retry == []C10_Attempts /\ [][C10_Settled]_vars

\* three attempts with exponential backoff all failed
C10_Witness ==
  \E key \in DOMAIN ops :
    /\ ops[key].pc = "rejected"
    /\ ops[key].calls = 3
    /\ ops[key].sleeps = <<10, 20>>

\* the timeout in force for a step, in seconds: the step's, else the task's
TimeoutOf(id) == IF Decl(id).timeout # 0 THEN Decl(id).timeout ELSE task.timeout

\* the label of the pending call in its timeout error: -1 stands for the
\* bare step id, k for <id>[k]
LabelOf(key) ==
  IF hasDependencies /\ IsPresent(Decl(key[1]).forEach) THEN key[2] ELSE -1

\* the step of the pending call has a forEach that the runner interprets
IsItem(key) == hasDependencies /\ IsPresent(Decl(key[1]).forEach)

\* C11: a pending call whose timer fired makes its step fail (skipped when
\* optional) with '"<label>" timed out after <t*1000>ms', t being the step's
\* timeout or, when it declares none, the task's, and the label the step id
\* (step_<i> in the sequential runner, <id>[<index>] for a forEach item);
\* without a timeout no timer fires; a call that settles while its timer has
\* not fired gives the step its own result or error.
C11_Timeout ==
  \A key \in DOMAIN ops :
    key[1] \in DOMAIN stepStatuses =>
      LET id == key[1]
          op == ops[key]
          st == stepStatuses[id]
      IN /\ op.timedOut =>
              /\ TimeoutOf(id) > 0
              /\ st.status = (IF Decl(id).optional THEN "skipped" ELSE "failed")
              /\ st.error = Message("timed out after", id, LabelOf(key),
                                    TimeoutOf(id) * 1000, <<>>)
         /\ TimeoutOf(id) = 0 => ~op.timedOut
         /\ (~hasDependencies) => id = DefaultId(DeclIndex(id))
         /\ (op.pc = "resolved" /\ ~op.timedOut /\ ~IsItem(key)) =>
              (st.status = "completed" /\ st.result = op.value)
         /\ (op.pc = "rejected" /\ ~op.timedOut /\ ~IsItem(key)) =>
              /\ st.status = (IF Decl(id).optional THEN "skipped" ELSE "failed")
              /\ st.error = op.error.message
         /\ (op.pc = "rejected" /\ IsItem(key)) =>
              /\ st.status = (IF Decl(id).optional THEN "skipped" ELSE "failed")
              /\ \E k2 \in KeysOf(id) :
                   \/ ops[k2].pc = "rejected" /\ st.error = ops[k2].error.message
                   \/ ops[k2].timedOut /\ st.error.kind = "timed out after"

\* a step with timeout 2 in a task with timeout 3 timed out after 2000 ms
C11_Witness ==
  \E key \in DOMAIN ops :
    /\ key[1] \in DOMAIN stepStatuses
    /\ ops[key].timedOut
    /\ Decl(key[1]).timeout = 2
    /\ task.timeout = 3
    /\ stepStatuses[key[1]].status = "failed"
    /\ stepStatuses[key[1]].error.n = 2000

\* the value a runWhen template of the form {{payload.<key>...}} names
RunWhenValue(id) ==
  LET path == Decl(id).runWhen.body
  IN IF Len(path) = 2 /\ path[1] = "payload" /\ path[2] \in DOMAIN task.payload
     THEN task.payload[path[2]]
     ELSE Undefined

\* missing, false, 0, empty string, null
Falsy(val) == val \in {Undefined, Null, Bool(FALSE), Num(0), Str("")}

\* the step declares a runWhen that makes it skip
SkipsByRunWhen(id) ==
  \/ IsLit(Decl(id).runWhen, "on-demand")
  \/ Decl(id).runWhen.braces /\ Falsy(RunWhenValue(id))

\* the marker a step skipped by runWhen gets as result
RunWhenMarker(id) ==
  IF IsLit(Decl(id).runWhen, "on-demand")
  THEN Obj([skipped |-> Bool(TRUE), reason |-> Str("on-demand")])
  ELSE Obj([skipped |-> Bool(TRUE), reason |-> Str("condition-false"),
            condition |-> [t |-> "string", tpl |-> Decl(id).runWhen]])

\* the runWhen of the step reads the payload only (or is no template)
RunWhenOfPayload(id) ==
  Decl(id).runWhen.braces => Decl(id).runWhen.body[1] = "payload"

StatusBefore(id) ==
  IF id \in DOMAIN stepStatuses THEN stepStatuses[id].status ELSE "pending"

TerminalStatus == {"completed", "failed", "skipped"}

\* the step has had status running: `status.status = "running"` is
\* directly followed by the step:start event
HasBeenRunning(id) == Count(emitted, <<"step:start", id>>) > 0

C13_Lifecycle ==
  \A id \in DOMAIN stepStatuses' :
    stepStatuses'[id].status # StatusBefore(id) =>
      /\ StatusBefore(id) \notin TerminalStatus
      /\ stepStatuses'[id].status = "running" => StatusBefore(id) = "pending"
      /\ stepStatuses'[id].status \in TerminalStatus => HasBeenRunning(id)'

\* C13 as stated: a status changes only from pending to running and from
\* running to completed, failed or skipped; no step becomes terminal
\* without having been running, and a terminal status never changes.
C13_Original == [][C13_Lifecycle]_vars

\* the id of the step declared at index i (from 0): its id, else step_<i>
IdAt(i) == IF Steps[i + 1].id # "" THEN Steps[i + 1].id ELSE DefaultId(i)

\* what the slot of a terminal step must hold, by the step's status record
ExpectedSlot(id) ==
  LET st == stepStatuses[id]
  IN IF st.status = "completed" THEN st.result
     ELSE IF st.error # NoMsg
          THEN Obj([error |-> MsgStr(st.error), skipped |-> Bool(TRUE)])
          ELSE RunWhenMarker(id)

\* C14: the PipelineResult a pipeline returns has one slot per declared step in
\* steps, steps[i] is stepResults[id of the step declared at index i],
\* finalResult is the slot of the last declared step, and a slot holds the
\* step's result, the runWhen marker of a skipped step, or the
\* {error, skipped: true} marker of an optional step that failed.
C14_ResultShape ==
  (isPipeline /\ outcome.kind = "returned") =>
    LET r == outcome.value
    IN /\ Len(r.steps) = totalSteps
       /\ \A i \in 0..(totalSteps - 1) :
            /\ IdAt(i) \in DOMAIN r.stepResults
            /\ r.steps[i + 1] = r.stepResults[IdAt(i)]
            /\ IdAt(i) \in DOMAIN stepStatuses
            /\ r.steps[i + 1] = ExpectedSlot(IdAt(i))
       /\ Cardinality(DOMAIN r.stepResults) = totalSteps
       /\ r.finalResult = r.steps[totalSteps]

\* returned with the marker of an optional failure in the first slot and a
\* runWhen marker in the last one
C14_Witness ==
  /\ outcome.kind = "returned"
  /\ totalSteps = 2
  /\ stepStatuses[IdAt(0)].status = "skipped"
  /\ stepStatuses[IdAt(0)].error # NoMsg
  /\ outcome.value.steps[1] = ExpectedSlot(IdAt(0))
  /\ outcome.value.finalResult = RunWhenMarker(IdAt(1))

\* the declared step ids, defaulted to step_<i>
DeclaredIds == {IdAt(i) : i \in 0..(totalSteps - 1)}

\* C15: in every returned PipelineResult, stepStatus holds exactly one
\* record per declared step id (defaulted to step_<i>) and no other record,
\* and every record's status is completed or skipped.
C15_StepStatus ==
  (isPipeline /\ outcome.kind = "returned") =>
    LET ss == outcome.value.stepStatus
    IN /\ Len(ss) = totalSteps
       /\ {ss[k].id : k \in 1..Len(ss)} = DeclaredIds
       /\ Cardinality(DeclaredIds) = totalSteps
       /\ \A k \in 1..Len(ss) : ss[k].status \in {"completed", "skipped"}

\* a sequential pipeline returned with a completed step and
\* an optional step that failed
C15_Witness ==
  /\ outcome.kind = "returned"
  /\ isPipeline
  /\ ~hasDependencies
  /\ \E k \in 1..Len(outcome.value.stepStatus) :
       /\ outcome.value.stepStatus[k].status = "skipped"
       /\ outcome.value.stepStatus[k].error # NoMsg
  /\ \E k \in 1..Len(outcome.value.stepStatus) :
       outcome.value.stepStatus[k].status = "completed"

\* the timing fields of a record are set and ordered
Timed(st) ==
  /\ st.duration # Unset
  /\ st.duration >= 0
  /\ st.completedAt # Unset
  /\ st.startedAt # Unset => st.completedAt >= st.startedAt

\* C16: every StepStatus record whose status is completed, failed or
\* skipped has duration set and >= 0 and completedAt set and not earlier
\* than startedAt (when startedAt is set), in both runners and for every
\* way of reaching the terminal status.
C16_Original ==
  \A id \in DOMAIN stepStatuses :
    stepStatuses[id].status \in TerminalStatus => Timed(stepStatuses[id])

\* v is 100 * done / total rounded to the nearest integer (a half goes up)
IsRounded(v, done, total) ==
  /\ 2 * total * v - total <= 200 * done
  /\ 200 * done < 2 * total * v + total

\* the steps whose iteration the sequential runner has begun
Begun == {id \in DOMAIN entered : entered[id] > 0}

\* every reported value is an integer percentage, and none is below an
\* earlier one
C17_Monotone ==
  /\ \A k \in 1..Len(reported) : reported[k] \in 0..100
  /\ \A k \in 1..Len(reported) : \A m \in 1..k : reported[m] <= reported[k]

\* the sequential runner has reported round(100 * i / n) for each step i it
\* has begun, in order, and nothing else
C17_Sequential ==
  ~hasDependencies =>
    /\ Len(reported) = Cardinality(Begun)
    /\ \A k \in 1..Len(reported) : IsRounded(reported[k], k - 1, totalSteps)

\* the DAG runner reports exactly at the end of a tick that did not abort,
\* and then round(100 * |completed| / total)
C17_DagTick ==
  hasDependencies =>
    /\ (pc = "await" /\ pc' = "tick") =>
         /\ Len(reported') = Len(reported) + 1
         /\ IsRounded(reported'[Len(reported')], Cardinality(completed'), totalSteps)
    /\ ~(pc = "await" /\ pc' = "tick") => reported' = reported
    /\ \A k \in 1..Len(reported) : reported'[k] = reported[k]

\* C17: the values passed to the progress callback during one pipeline
\* execution are integers in 0..100 and never decrease: the DAG runner
\* reports round(100 * |completed| / total) after each tick that did not
\* abort, and the sequential runner reports round(100 * i / n) before
\* handling step i (a successful 4-step sequential pipeline reports exactly
\* 0, 25, 50, 75).
C17_Progress ==
  /\ []C17_Monotone
  /\ []C17_Sequential
  /\ [][C17_DagTick]_vars
  /\ [](~hasDependencies /\ totalSteps = 4 /\ outcome.kind = "returned"
          => reported = <<0, 25, 50, 75>>)

\* a 4-step sequential pipeline returned after reporting 0, 25, 50, 75
C17_Witness ==
  /\ ~hasDependencies
  /\ totalSteps = 4
  /\ outcome.kind = "returned"
  /\ reported = <<0, 25, 50, 75>>

\* C18: no pipeline execution, in either runner, ever passes the value 100
\* to the progress callback.
C18_Original == \A k \in 1..Len(reported) : reported[k] # 100

\* the number of pipeline:complete events emitted so far
PipelineCompleted == Count(emitted, <<"pipeline:complete", "">>)

\* a call abandoned by withTimeout that has not settled yet
Abandoned(key) == ops[key].timedOut /\ ops[key].pc \in {"select", "execute", "sleep"}

\* pipeline:complete is emitted once, and only by a pipeline that returns
C19_Once ==
  /\ (isPipeline /\ outcome.kind = "returned") => PipelineCompleted = 1
  /\ outcome.kind # "returned" => PipelineCompleted = 0

\* nothing is emitted after pipeline:complete
C19_Last == PipelineCompleted > 0 => emitted' = emitted

\* C19: a pipeline that returns (either runner) emits pipeline:complete
\* exactly once and no event after it, even if operations abandoned by a
\* timeout are still running; a pipeline that rejects emits no
\* pipeline:complete.
C19_PipelineComplete == []C19_Once /\ [][C19_Last]_vars

\* the pipeline returned while a call abandoned by a timeout is in flight
C19_Witness ==
  /\ outcome.kind = "returned"
  /\ PipelineCompleted = 1
  /\ \E key \in DOMAIN ops : Abandoned(key)

\* some declared step has an id or a non-empty dependsOn
SomeIdOrDependsOn ==
  \E k \in 1..Len(task.steps) :
    task.steps[k].id # "" \/ task.steps[k].dependsOn # <<>>

\* the bookkeeping is the DAG runner's: a status for every step from the
\* start, and the sequential runner's loop has not moved
OnDagRunner ==
  /\ pc \in {"tick", "await", "done"}
  /\ DOMAIN stepStatuses = StepIds
  /\ seqIndex = 0
  /\ stepResults = <<>>

\* the bookkeeping is the sequential runner's: statuses step_<i> of the
\* iterations begun, and no tick of the DAG runner
OnSequentialRunner ==
  /\ pc \in {"seq", "seqAwait", "done"}
  /\ DOMAIN stepStatuses = {DefaultId(i) : i \in 0..(Cardinality(Begun) - 1)}
  /\ ticks = 0
  /\ executions = <<>>
  /\ results = EmptyRec

\* the calls backend.execute may get from one executeWithRetry(task, ...)
SingleCalls ==
  IF task.retry.present /\ task.retry.attempts > 1 THEN task.retry.attempts ELSE 1

\* a task without steps: one selectBackend(task), one executeWithRetry of
\* the task itself, no timeout, no progress, no event, and the call's
\* outcome is processTask's
OnSinglePath ==
  /\ pc \in {"single", "done"}
  /\ DOMAIN ops = {SingleKey}
  /\ LET op == ops[SingleKey]
     IN /\ op.task = [type |-> task.type, backend |-> task.backend,
                      payload |-> task.payload, gpu |-> task.gpu, retry |-> task.retry]
        /\ op.timeoutMs = 0
        /\ op.calls <= SingleCalls
        /\ op.pc = "resolved" => op.calls >= 1
        /\ pc = "done" <=> op.pc \in {"resolved", "rejected"}
        /\ op.pc = "resolved" => outcome = Returned(op.value)
        /\ op.pc = "rejected" => outcome = Rejected(op.error)
        /\ op.pc \notin {"resolved", "rejected"} => outcome = Pending
  /\ reported = <<>>
  /\ emitted = EmptyRec
  /\ stepStatuses = EmptyRec
  /\ ticks = 0
  /\ seqIndex = 0

C20_RoutingInv ==
  IF task.steps # <<>>
  THEN IF SomeIdOrDependsOn THEN OnDagRunner ELSE OnSequentialRunner
  ELSE OnSinglePath

\* a selection happens once per call: no call goes back to selectBackend
C20_SelectsOnce ==
  \A key \in DOMAIN ops :
    key \in DOMAIN ops' /\ ops'[key].pc = "select" => ops[key].pc = "select"

\* C20: processTask routes a task with a non-empty steps list to the DAG
\* runner iff at least one step has an id or a non-empty dependsOn, and
\* otherwise to the sequential runner; a task with no steps (or an empty
\* steps list) results in exactly one backend selection and one
\* retry-wrapped execute, and never calls the progress callback.
C20_Routing == []C20_RoutingInv /\ [][C20_SelectsOnce]_vars

\* a pipeline whose steps have ids but no dependsOn ran on the DAG runner:
\* both steps were dispatched in one tick and the pipeline returned
C20_Witness ==
  /\ task.steps # <<>>
  /\ \A k \in 1..Len(task.steps) : task.steps[k].dependsOn = <<>>
  /\ SomeIdOrDependsOn
  /\ outcome.kind = "returned"
  /\ ticks = 1
  /\ Len(parallelGroups) = 1

\* the pipeline runs on the sequential runner
Sequential == isPipeline /\ ~hasDependencies

\* the call has neither resolved nor been rejected
Unsettled(key) == ops[key].pc \in {"select", "execute", "sleep"}

\* backend.execute is invoked for the call in this step
Invoked(key) == key \in DOMAIN ops /\ ops'[key].calls > ops[key].calls

\* no step declared after that of the call has reached the backend
NoLaterCall(key) ==
  \A other \in DOMAIN ops' :
    DeclIndex(other[1]) > DeclIndex(key[1]) => ops'[other].calls = 0

\* the call of a step starts when every step declared before it is terminal
C21_StartsAfterTerminal ==
  Sequential =>
    \A key \in DOMAIN ops :
      \A i \in 0..(DeclIndex(key[1]) - 1) :
        /\ DefaultId(i) \in DOMAIN stepStatuses
        /\ stepStatuses[DefaultId(i)].status \in TerminalStatus

\* at most one call of the pipeline is unsettled
C21_OneInFlight ==
  Sequential => Cardinality({key \in DOMAIN ops : Unsettled(key)}) <= 1

\* the backend is invoked in declared order
C21_InvokedInOrder ==
  Sequential => \A key \in DOMAIN ops : Invoked(key) => NoLaterCall(key)

\* C21 as stated: the sequential runner handles steps in declaration order,
\* one at a time: the call of step i+1 starts only after step i is terminal,
\* so the backend observes the executed steps in declared order and never
\* two steps of one pipeline in flight together.
C21_Original ==
  /\ []C21_StartsAfterTerminal
  /\ []C21_OneInFlight
  /\ [][C21_InvokedInOrder]_vars

\* at most one call that no timeout has abandoned is unsettled, and it is
\* the call of the step the loop is at
C21_OneAwaited ==
  Sequential =>
    \A key \in DOMAIN ops :
      (Unsettled(key) /\ ~ops[key].timedOut) =>
        pc = "seqAwait" /\ key = <<DefaultId(seqIndex), 0>>

\* the calls that no timeout has abandoned reach the backend in declared order
C21_AwaitedInOrder ==
  Sequential =>
    \A key \in DOMAIN ops : (Invoked(key) /\ ~ops[key].timedOut) => NoLaterCall(key)

\* C21 (amended): the sequential runner handles steps in declaration order,
\* one at a time: the call of step i+1 starts only after step i is terminal,
\* at most one call that was not abandoned by a timeout is unsettled, and
\* those calls reach the backend in declared order.  The call of a step
\* that timed out is not cancelled: it may reach the backend while or after
\* a later step does.
C21_SequentialOrder ==
  /\ []C21_StartsAfterTerminal
  /\ []C21_OneAwaited
  /\ [][C21_AwaitedInOrder]_vars

\* the second step's call is at the backend after the first step, optional,
\* timed out, and its abandoned call is still unsettled
C21_Witness ==
  /\ Sequential
  /\ <<DefaultId(0), 0>> \in DOMAIN ops
  /\ <<DefaultId(1), 0>> \in DOMAIN ops
  /\ ops[<<DefaultId(0), 0>>].timedOut
  /\ Unsettled(<<DefaultId(0), 0>>)
  /\ ops[<<DefaultId(1), 0>>].pc = "execute"

\* the name of an array index as a path segment
IndexNames == <<"0", "1", "2", "3", "4">>

\* the value found at a path in a value: own members of objects, elements
\* and length of arrays; absent as soon as a segment finds nothing
RECURSIVE ValueAt(_, _)
ValueAt(val, path) ==
  IF path = <<>>
  THEN val
  ELSE LET seg == Head(path)
       IN IF val.t = "object" /\ seg \in DOMAIN val.v
          THEN ValueAt(val.v[seg], Tail(path))
          ELSE IF val.t = "array" /\ seg = "length"
          THEN ValueAt(Num(Len(val.v)), Tail(path))
          ELSE IF val.t = "array" /\ \E k \in 1..Len(val.v) : IndexNames[k] = seg
          THEN ValueAt(val.v[CHOOSE k \in 1..Len(val.v) : IndexNames[k] = seg], Tail(path))
          ELSE Undefined

\* the context of the runner, as it is now
ContextNow ==
  IF hasDependencies
  THEN Obj([payload |-> Obj(task.payload), steps |-> Obj(results)])
  ELSE Obj([payload |-> Obj(task.payload), steps |-> Arr(stepResults)])

\* the path reads the payload, or the result of a step that was terminal
\* when step id was dispatched: what it finds does not change afterwards
StablePath(id, path) ==
  \/ path = <<>>
  \/ path[1] \notin {"payload", "steps"}
  \/ path[1] = "payload"
  \/ /\ Len(path) >= 2
     /\ IF hasDependencies
        THEN \E k \in 1..Len(Decl(id).dependsOn) : Decl(id).dependsOn[k] = path[2]
        ELSE \E k \in 1..DeclIndex(id) : IndexNames[k] = path[2]

Selecting == pc = "done" /\ answers # NoAnswers
ByName == task.backend # "" /\ task.backend # "auto"

\* the backends registered under the name: at most one
RegisteredAs(name) == {backends[k] : k \in {j \in 1..Len(backends) : backends[j].name = name}}

\* the positions of the backends whose health check returned true
HealthyAt == {k \in 1..Len(backends) : answers.health[backends[k].name] = "true"}
FirstOf(positions) == backends[CHOOSE k \in positions : \A j \in positions : k <= j]

\* C23: selectBackend for a task naming a backend other than "auto" returns
\* exactly the backend registered under that name when its health check
\* returns true, fails with `Backend "<name>" not registered` when no such
\* backend is registered, and with `Backend "<name>" is not healthy` when it
\* reports unhealthy; it never falls back to a different backend.
C23_Named ==
  (Selecting /\ ByName) =>
    /\ RegisteredAs(task.backend) = {} =>
         outcome = Rejected(Error(NotRegisteredMsg(task.backend)))
    /\ \A b \in RegisteredAs(task.backend) :
         /\ answers.health[b.name] = "true" => outcome = Returned(b)
         /\ answers.health[b.name] = "false" =>
              outcome = Rejected(Error(NotHealthyMsg(task.backend)))
    /\ outcome.kind = "returned" => outcome.value \in RegisteredAs(task.backend)

\* the backend named is registered second and unhealthy, the first one is
\* healthy, and the call failed
C23_Witness ==
  /\ Selecting
  /\ ByName
  /\ Len(backends) = 2
  /\ backends[2].name = task.backend
  /\ answers.health[backends[1].name] = "true"
  /\ answers.health[backends[2].name] = "false"
  /\ outcome = Rejected(Error(NotHealthyMsg(task.backend)))

\* the positions of the healthy backends that report an available GPU
GpuAt == {k \in HealthyAt : answers.resources[backends[k].name] = "gpu"}

\* C24: selectBackend for a task with backend "auto" or absent returns the
\* first backend, in insertion order, whose health check returned true, or,
\* when the task requires a GPU, the first such backend that reports an
\* available GPU if one exists; it fails with `No healthy backend available`
\* iff no registered backend is healthy, and never returns a backend whose
\* health check returned false or threw.
C24_Original ==
  (Selecting /\ ~ByName) =>
    /\ HealthyAt = {} <=> outcome = Rejected(Error(NoHealthyMsg))
    /\ HealthyAt # {} =>
         outcome = Returned(IF task.gpu /\ GpuAt # {} THEN FirstOf(GpuAt) ELSE FirstOf(HealthyAt))
    /\ outcome.kind = "returned" => answers.health[outcome.value.name] = "true"

\* the answers with every health check that threw taken as one that
\* returned false
ThrowsAsFalse ==
  [answers EXCEPT !.health =
     [name \in DOMAIN answers.health |->
        IF answers.health[name] = "throws" THEN "false" ELSE answers.health[name]]]

\* what selectBackend settles with for the given answers
Settled(given) ==
  LET sel == select(task, backends, given)
  IN IF sel.ok THEN Returned(sel.backend) ELSE Rejected(sel.error)

\* C25: in every selection path a backend whose isHealthy() throws is
\* treated exactly like one whose isHealthy() returns false: automatic
\* selection skips it, and selecting it by name fails with the
\* `Backend "<name>" is not healthy` error.
C25_Original ==
  Selecting =>
    /\ outcome = Settled(ThrowsAsFalse)
    /\ ByName =>
         \A b \in RegisteredAs(task.backend) :
           answers.health[b.name] = "throws" =>
             outcome = Rejected(Error(NotHealthyMsg(task.backend)))

\* the backend most recently registered under the name and not unregistered
\* or cleared since, by the calls made so far
RECURSIVE Latest(_, _)
Latest(calls, name) ==
  IF calls = <<>>
  THEN NoBackend
  ELSE LET last == calls[Len(calls)]
       IN IF last.op = "clear" \/ (last.op = "unregister" /\ last.name = name)
          THEN NoBackend
          ELSE IF last.op = "register" /\ last.name = name
          THEN last.backend
          ELSE Latest(SubSeq(calls, 1, Len(calls) - 1), name)

\* getBackend and getAllBackends answer by the calls made so far
C26_Lookup ==
  /\ \A name \in BackendNames : getBackend(backends, name) = Latest(history, name)
  /\ LET all == getAllBackends(backends)
     IN /\ {all[k] : k \in 1..Len(all)} =
             {Latest(history, name) : name \in BackendNames} \ {NoBackend}
        /\ \A i, j \in 1..Len(all) : i # j => all[i].name # all[j].name

\* unregisterBackend returns true iff the name was registered and leaves
\* every other entry as it was
C26_Unregister ==
  (history' # history /\ history'[Len(history')].op = "unregister") =>
    LET name == history'[Len(history')].name
    IN /\ outcome' = Returned(Bool(getBackend(backends, name) # NoBackend))
       /\ getBackend(backends', name) = NoBackend
       /\ \A other \in BackendNames \ {name} :
            getBackend(backends', other) = getBackend(backends, other)

\* C26: after any sequence of registerBackend, unregisterBackend and
\* clearBackends, getBackend(name) returns the backend most recently
\* registered under name if the name was not unregistered or cleared since,
\* and undefined otherwise; getAllBackends returns exactly those backends;
\* unregisterBackend returns true iff the name was registered and changes
\* no other entry.
C26_Registry == []C26_Lookup /\ [][C26_Unregister]_vars

\* a name registered twice holds the second backend, after another name
\* was unregistered
C26_Witness ==
  /\ pc = "idle"
  /\ Len(history) = 3
  /\ history[1] = RegisterOp(Backend("modal", 1))
  /\ history[2] = RegisterOp(Backend("modal", 2))
  /\ history[3].op = "unregister"
  /\ history[3].name = "ray"
  /\ outcome = Returned(Bool(FALSE))
  /\ getBackend(backends, "modal") = Backend("modal", 2)

\* the observer of the steps of a pipeline was told the number of the attempt
\* that begins in this step
Reported(key) == stepStatuses'[key[1]].retryAttempt = ops'[key].calls

\* C27: before every invocation of the executor, executeWithRetry reports
\* the 1-based number of that attempt to the observer when one is provided,
\* for every retry configuration: retry absent, attempts = 1 and
\* attempts > 1 alike.
C27_Original ==
  [][isPipeline => \A key \in DOMAIN ops : Invoked(key) => Reported(key)]_vars

\* C28: when retry.backoff is "exponential" and retry.maxDelay is set, the
\* sleep between two consecutive attempts never exceeds maxDelay, for every
\* attempt number and base delay.
C28_Original ==
  \A key \in DOMAIN ops :
    LET retry == ops[key].task.retry
    IN (retry.present /\ retry.backoff = "exponential" /\ retry.maxDelay # 0) =>
         \A k \in 1..Len(ops[key].sleeps) : ops[key].sleeps[k] <= retry.maxDelay

\* what the forEach template of the step resolves to
ForEachValue(id) == resolveTemplate(Decl(id).forEach, Context(Cur))

\* the <typeof> of the message, by the kind of value that is no array
GotType(val) ==
  CASE val.t = "undefined" -> "undefined"
    [] val.t = "string" -> "string"
    [] val.t = "number" -> "number"
    [] val.t = "boolean" -> "boolean"
    [] val.t \in {"object", "null"} -> "object"

C29_Fails ==
  \A id \in DOMAIN stepStatuses :
    ForEachMismatch(id) =>
      /\ KeysOf(id) = {}
      /\ stepStatuses[id].error =
           Message("forEach did not resolve to array", GotType(ForEachValue(id)), -1, 0,
                   Decl(id).forEach.body)
      /\ stepStatuses[id].status = (IF Decl(id).optional THEN "skipped" ELSE "failed")
      /\ ~Decl(id).optional =>
           /\ id \in failed
           /\ outcome.kind # "returned"
           /\ pc = "done" => outcome.kind = "rejected"

C29_Aborts ==
  (\E id \in DOMAIN stepStatuses : ForEachMismatch(id) /\ ~Decl(id).optional) =>
    /\ ticks' = ticks
    /\ \A other \in StepIds :
         Count(entered, other) = 0 => (Count(entered', other) = 0 /\ ~Called(other)')

\* C29: a forEach step whose template does not resolve to an array (missing
\* path, object, string, number) fails with 'forEach template "<expr>" did
\* not resolve to array, got: <typeof>' without starting any backend call for
\* that step; the failure then aborts the pipeline if the step is required.
C29_ForEachType == []C29_Fails /\ [][C29_Aborts]_vars

\* a required forEach step over a number failed with "got: number", the
\* pipeline rejected with that error and the step after it never started
C29_Witness ==
  /\ pc = "done"
  /\ "a" \in DOMAIN stepStatuses
  /\ ForEachMismatch("a")
  /\ ForEachValue("a") = Num(2)
  /\ stepStatuses["a"].error.id = "number"
  /\ outcome = Rejected(Error(stepStatuses["a"].error))
  /\ Count(entered, "b") = 0

\* the status of every step agrees with the set that holds its id
C30_Sets ==
  /\ running \cap completed = {}
  /\ running \cap failed = {}
  /\ completed \cap failed = {}
  /\ \A id \in StepIds :
       /\ id \in completed <=> stepStatuses[id].status \in {"completed", "skipped"}
       /\ id \in failed <=> stepStatuses[id].status = "failed"
       /\ id \notin (running \cup completed \cup failed) =>
            stepStatuses[id].status = "pending"

\* C30: at every suspension point of a DAG pipeline execution the sets
\* running, completed and failed are pairwise disjoint, a step id is in
\* completed iff its status is completed or skipped, in failed iff its
\* status is failed, and every id in none of the three sets has status
\* pending, whatever the backend and the event callback do.
C30_Original == hasDependencies => C30_Sets

\* the timer of the pending call fires in this step
Fires(key) == key \in DOMAIN ops /\ ~ops[key].timedOut /\ ops'[key].timedOut

\* while the step awaits a pending call under a timeout, the timer can fire
\* whatever the call is doing: selecting, at the backend, or sleeping
C31_Armed ==
  \A key \in DOMAIN ops :
    (/\ isPipeline
     /\ TimeoutOf(key[1]) > 0
     /\ ~ops[key].timedOut
     /\ ops[key].pc \in {"select", "execute", "sleep"}
     /\ stepAwaits(key[1])) => ENABLED Timeout(key[1], key[2])

\* the timer that fires ends the step at once with the timeout error and
\* starts no attempt and no sleep
C31_Fires ==
  \A key \in DOMAIN ops :
    Fires(key) =>
      LET id == key[1]
      IN /\ ops'[key] = [ops[key] EXCEPT !.timedOut = TRUE]
         /\ ops[key].calls <= AttemptsOf(key)
         /\ stepStatuses'[id].status = (IF Decl(id).optional THEN "skipped" ELSE "failed")
         /\ stepStatuses'[id].error.kind = "timed out after"
         /\ stepStatuses'[id].error.n = TimeoutOf(id) * 1000

\* a step that timed out keeps its status and its timeout error and is not
\* run again; the call it no longer awaits may still report attempts
C31_NotRetried ==
  \A key \in DOMAIN ops :
    ops[key].timedOut =>
      LET id == key[1]
      IN /\ stepStatuses'[id].status = stepStatuses[id].status
         /\ stepStatuses'[id].error = stepStatuses[id].error
         /\ stepStatuses'[id].completedAt = stepStatuses[id].completedAt
         /\ Count(entered', id) = Count(entered, id)
         /\ {k \in DOMAIN ops' : k[1] = id} = KeysOf(id)
         /\ ops'[key].timedOut

\* C31: a step's timeout bounds the whole operation (backend selection,
\* every retry attempt and every backoff sleep together), not each attempt
\* separately: a step with timeout t and retry attempts a fails with the
\* timeout error as soon as t elapses even if fewer than a attempts have
\* been made, and the timeout failure itself is never retried.
C31_WholeOperation == []C31_Armed /\ [][C31_Fires]_vars /\ [][C31_NotRetried]_vars

\* the timer fired during the backoff sleep after the first of two attempts
C31_Witness ==
  \E key \in DOMAIN ops :
    /\ isPipeline
    /\ ops[key].timedOut
    /\ ops[key].pc = "sleep"
    /\ ops[key].calls = 1
    /\ AttemptsOf(key) = 2
    /\ stepStatuses[key[1]].status = "failed"
    /\ stepStatuses[key[1]].error.kind = "timed out after"

\* every id the step depends on, directly or not, is declared and the step
\* is on no cycle and behind none: its dependencies can all complete
Grounded(id) ==
  LET below == DepClosure(DepsOf(id), totalSteps)
  IN /\ below \subseteq StepIds
     /\ \A x \in below \cup {id} : x \notin DepClosure(DepsOf(x), totalSteps)

\* the step's backend selection failed: its call was rejected before any
\* call of the backend
SelectionFailed(id) ==
  \E key \in KeysOf(id) : ops[key].pc = "rejected" /\ ops[key].calls = 0

C32_RunsWhatCanRun ==
  (hasDependencies /\ DeadlockRaised) =>
    \A id \in StepIds :
      IF Grounded(id)
      THEN /\ Count(entered, id) = 1
           /\ id \in completed
           /\ stepStatuses[id].status \in {"completed", "skipped"}
           /\ Called(id) \/ SelectionFailed(id) \/ ForEachMismatch(id)
                \/ stepStatuses[id].error = NoMsg
           /\ stepStatuses[id].status = "completed" => Called(id)
      ELSE /\ Count(entered, id) = 0
           /\ stepStatuses[id].status = "pending"

\* a tick in which nothing is runnable finds nothing running, so that it is
\* the tick that raises
C32_FirstIdleTick ==
  (hasDependencies /\ pc = "tick" /\ loopContinues(Cur) /\ getRunnableSteps(Cur) = <<>>) =>
    running = {}

C32_RaisedAtIdleTick ==
  (hasDependencies /\ DeadlockRaised' /\ ~DeadlockRaised) =>
    (pc = "tick" /\ getRunnableSteps(Cur) = <<>> /\ ticks' = ticks)

SelectionErrors ==
  {NoHealthyMsg} \cup {NotRegisteredMsg(name) : name \in ServedNames}
  \cup {NotHealthyMsg(name) : name \in ServedNames}

\* what a settled call may have done, by its locals
SafelySettled(sel) ==
  IF sel.result.ok
  THEN /\ sel.result.backend # NoBackend
       /\ sel.result.backend \in sel.registered
       /\ sel.result.backend \in sel.healthy
  ELSE sel.result.error.message \in SelectionErrors

\* C33: under any interleaving of registerBackend / unregisterBackend /
\* clearBackends calls with in-flight selectBackend calls of concurrent
\* pipelines (a selection suspends at every isHealthy and getResources
\* call), each selectBackend call either raises one of the three selection
\* errors or returns a backend that was registered at some moment during the
\* call and whose health check returned true in that call; it never returns
\* an undefined or never-registered backend.
C33_Original ==
  \A c \in 1..Len(selections) :
    selections[c].pc = "done" => SafelySettled(selections[c])

\* ------------------------------------------------------------------------
\* C34
\* ------------------------------------------------------------------------
Terminal(id) == stepStatuses[id].status \in TerminalStatus

\* the running set is empty whenever the loop computes the runnable steps
C34_RunningEmpty == pc = "tick" => running = {}

\* a step is dispatched only when every step dispatched before it is terminal
C34_TickBarrier ==
  \A id \in StepIds :
    Count(entered, id)' > Count(entered, id) =>
      /\ pc = "tick"
      /\ \A other \in StepIds : Count(entered, other) > 0 => Terminal(other)

\* while a step of the current tick is not terminal, the loop is inside
\* Promise.all and no tick starts
C34_AwaitsWholeTick ==
  (\E id \in StepIds : Count(entered, id) > 0 /\ ~Terminal(id)) =>
    pc \in {"await", "done"}

\* the branch that sleeps 10 ms needs a tick without runnable steps and a
\* non-empty running set
C34_NeverSleeps ==
  ~(/\ pc = "tick"
    /\ loopContinues(Cur)
    /\ getRunnableSteps(Cur) = <<>>
    /\ Cardinality(running) # 0)

\* C34: at every readiness computation of the DAG scheduler the running set
\* is empty: every step dispatched in a tick is terminal before the next
\* tick starts, so a step whose own dependencies finished is not dispatched
\* while another step of the current tick is unfinished, and the branch that
\* waits 10 ms for running steps is never taken
C34_TickIsBarrier ==
  /\ [](hasDependencies => C34_RunningEmpty /\ C34_AwaitsWholeTick /\ C34_NeverSleeps)
  /\ [][hasDependencies => C34_TickBarrier]_vars

\* a pending step whose dependencies are all completed waits for another
\* step of the current tick that is still running
C34_Witness ==
  /\ hasDependencies
  /\ pc = "await"
  /\ \E id \in StepIds :
       /\ stepStatuses[id].status = "pending"
       /\ Count(entered, id) = 0
       /\ stepMap(id).dependsOn # <<>>
       /\ \A k \in 1..Len(stepMap(id).dependsOn) : stepMap(id).dependsOn[k] \in completed
       /\ \E other \in running : other \in GroupSet(executions)

\* ------------------------------------------------------------------------
\* C35
\* ------------------------------------------------------------------------
\* the steps of the current tick that failed, in the order of the tick
FailedInTick == SelectSeq(executions, LAMBDA id : stepStatuses[id].status = "failed")

\* the step of the tick that failed first in time
FailedFirstInTime ==
  CHOOSE id \in GroupSet(FailedInTick) :
    \A x \in GroupSet(FailedInTick) :
      stepStatuses[id].completedAt <= stepStatuses[x].completedAt

DagRejected == hasDependencies /\ pc = "done" /\ outcome.kind = "rejected"

\* a failure does not end processTask while a step of the tick is unfinished
C35_WaitsForTick ==
  (hasDependencies /\ FailedInTick # <<>> /\ \E id \in GroupSet(executions) : ~Terminal(id)) =>
    (pc = "await" /\ outcome = Pending)

\* processTask ends in the step after the last step of the tick became terminal
C35_RejectsAtBarrier ==
  (hasDependencies /\ FailedInTick # <<>> /\ pc = "await" /\ pc' # "await") =>
    /\ \A id \in GroupSet(executions) : Terminal(id)
    /\ pc' = "done"
    /\ outcome'.kind = "rejected"

\* the error is that of the failed step that comes first in the tick, which
\* is the order of the declarations
C35_EarliestDeclared ==
  (DagRejected /\ FailedInTick # <<>>) =>
    /\ outcome.error.message = stepStatuses[FailedInTick[1]].error
    /\ ~Decl(FailedInTick[1]).optional
    /\ \A k \in 1..Len(FailedInTick) : DeclIndex(FailedInTick[1]) <= DeclIndex(FailedInTick[k])

\* C35: when one or more steps dispatched in the same DAG tick fail,
\* processTask rejects only after every step of that tick has reached a
\* terminal status, and the error raised is that of the failing required
\* step declared earliest in the steps list, not that of the step that
\* failed first in time
C35_TickFailure ==
  /\ [](C35_WaitsForTick /\ C35_EarliestDeclared)
  /\ [][C35_RejectsAtBarrier]_vars

\* two steps of a tick failed, the one declared later failed first in time,
\* and processTask rejected with the other one's error
C35_Witness ==
  /\ DagRejected
  /\ Len(FailedInTick) = 2
  /\ FailedFirstInTime = FailedInTick[2]
  /\ stepStatuses[FailedInTick[1]].error # stepStatuses[FailedInTick[2]].error
  /\ outcome.error.message = stepStatuses[FailedInTick[1]].error

\* ------------------------------------------------------------------------
\* C36
\* ------------------------------------------------------------------------
\* the call was abandoned by withTimeout and goes on in this step
AbandonedMoves(key) ==
  /\ key \in DOMAIN ops
  /\ ops[key].timedOut
  /\ ops'[key] # ops[key]

\* C36: after a step has become terminal through a timeout, the
\* still-running underlying operation (remaining retry attempts included)
\* never changes any field of that step's StepStatus record, the results
\* map, the scheduler's sets, or the outcome of the pipeline
C36_Original ==
  [][\A key \in DOMAIN ops :
       AbandonedMoves(key) =>
         /\ stepStatuses'[key[1]] = stepStatuses[key[1]]
         /\ results' = results
         /\ stepResults' = stepResults
         /\ running' = running
         /\ completed' = completed
         /\ failed' = failed
         /\ outcome' = outcome]_vars

\* ------------------------------------------------------------------------
\* C37
\* ------------------------------------------------------------------------
\* the item's call fails in this step: rejected after its retries, or timed out
ItemFails(key) ==
  /\ key \in DOMAIN ops
  /\ key[1] \in ForEachIds
  /\ key[1] \in running
  /\ \/ ops[key].pc # "rejected" /\ ops'[key].pc = "rejected"
     \/ ~ops[key].timedOut /\ ops'[key].timedOut

\* the error the failed item leaves
ItemError(key) ==
  IF ops'[key].timedOut /\ ~ops[key].timedOut
  THEN timeoutError(key[1], ops[key]).message
  ELSE ops'[key].error.message

\* the step is terminal in the very step in which the item fails, whatever
\* the other items of the batch are doing, and holds no item result
C37_FailsAtOnce ==
  \A key \in DOMAIN ops :
    ItemFails(key) =>
      LET id == key[1]
      IN /\ id \notin running'
         /\ stepStatuses'[id].status = IF stepMap(id).optional THEN "skipped" ELSE "failed"
         /\ stepStatuses'[id].error = ItemError(key)
         /\ stepStatuses'[id].result = Undefined
         /\ IF stepMap(id).optional
            THEN id \in completed' /\ results'[id] = ErrorMarker(ItemError(key))
            ELSE id \in failed' /\ id \notin DOMAIN results'

\* once the step is failed or skipped no further item is started, and no
\* item result is recorded
C37_NothingAfter ==
  \A id \in ForEachIds :
    stepStatuses[id].status \in {"failed", "skipped"} =>
      /\ KeysOf(id)' = KeysOf(id)
      /\ \A key \in KeysOf(id) : ops'[key].calls >= ops[key].calls
      /\ stepStatuses'[id].status = stepStatuses[id].status
      /\ stepStatuses'[id].result = Undefined
      /\ Slot(id)' = Slot(id)

\* the items started are those of the batches up to the failing one
C37_NoLaterBatch ==
  \A id \in ForEachIds :
    (stepStatuses[id].status \in {"failed", "skipped"} /\ id \in DOMAIN forEachLocal) =>
      LET fl == forEachLocal[id]
      IN /\ \A key \in KeysOf(id) : key[2] < fl.i + fl.concurrency
         /\ \A k \in 0..(fl.i - 1) : ops[<<id, k>>].pc = "resolved"
         /\ \E k \in BatchOf(fl) : ops[<<id, k>>].pc = "rejected" \/ ops[<<id, k>>].timedOut

\* C37: when an item of a forEach batch fails (after its own retries), the
\* step becomes failed (or skipped if optional) immediately, without waiting
\* for the other items of that batch and without recording any partial item
\* results, and no item of any later batch is ever started
C37_ItemFailure ==
  /\ [][C37_FailsAtOnce /\ C37_NothingAfter]_vars
  /\ []C37_NoLaterBatch

\* the first item of a batch of two failed and the step is failed while the
\* second item is still pending; the third item was never started
C37_Witness ==
  \E id \in ForEachIds :
    /\ Len(ItemsOf(id)) = 3
    /\ stepStatuses[id].status = "failed"
    /\ forEachLocal[id].concurrency = 2
    /\ ops[<<id, 0>>].pc = "rejected"
    /\ ops[<<id, 1>>].pc \in {"select", "execute", "sleep"}
    /\ <<id, 2>> \notin DOMAIN ops

\* ------------------------------------------------------------------------
\* C38
\* ------------------------------------------------------------------------
\* the positions (from 0) at which the id is declared
DeclaredAt(id) == {i \in 0..(totalSteps - 1) : stepIndexToId(i) = id}

\* the ids that two declarations share
SharedIds ==
  IF isPipeline /\ hasDependencies
  THEN {id \in StepIds : Cardinality(DeclaredAt(id)) > 1}
  ELSE {}

\* the last declaration of the id
LaterDecl(id) == Steps[(CHOOSE i \in DeclaredAt(id) : \A j \in DeclaredAt(id) : j <= i) + 1]

\* the run rejects, with the deadlock error when no step failed
RejectsUnlessPending ==
  /\ outcome.kind # "returned"
  /\ pc = "done" =>
       /\ outcome.kind = "rejected"
       /\ FailedSteps = {} => DeadlockRaised

\* C38 as stated: if two declared steps have the same id after defaulting,
\* the DAG pipeline never returns a PipelineResult: the shared id is
\* executed once, using the later declaration, and the run then rejects
\* (with the deadlock error when no step failed)
C38_Original ==
  SharedIds # {} =>
    /\ RejectsUnlessPending
    /\ \A id \in SharedIds :
         /\ Count(entered, id) <= 1
         /\ pc = "done" => Count(entered, id) = 1
         /\ \A key \in KeysOf(id) : ops[key].task.type = LaterDecl(id).task

\* a shared id is dispatched when the dependencies of its later declaration
\* are completed, whatever the earlier declaration names
C38_LaterDependencies ==
  \A id \in SharedIds :
    Count(entered, id)' > Count(entered, id) =>
      \A k \in 1..Len(LaterDecl(id).dependsOn) : LaterDecl(id).dependsOn[k] \in completed

C38_AtMostOnce ==
  SharedIds # {} =>
    /\ RejectsUnlessPending
    /\ FailedSteps # {} =>
         (pc = "done" => outcome.error.message = stepStatuses[FirstFailed].error)
    /\ \A id \in SharedIds :
         /\ Count(entered, id) <= 1
         /\ \A key \in KeysOf(id) : ops[key].task.type = LaterDecl(id).task
         /\ stepStatuses[id].task = LaterDecl(id).task
         /\ (pc = "done" /\ Count(entered, id) = 0) =>
              \/ FailedSteps # {}
              \/ \E k \in 1..Len(LaterDecl(id).dependsOn) :
                   LaterDecl(id).dependsOn[k] \notin completed

\* C38 amended: if two declared steps have the same id after defaulting,
\* the DAG pipeline never returns a PipelineResult: the shared id is
\* executed at most once, by the later declaration (its task, its
\* dependsOn), and not at all when a required step failed before or a
\* dependency of the later declaration never completes; the run rejects,
\* with the error of a failed required step or else the deadlock error
C38_DuplicateIds == []C38_AtMostOnce /\ [][C38_LaterDependencies]_vars

\* the shared id ran once with the task of the later declaration, whose
\* first declaration names another task and a dependency, and the run
\* ended with the deadlock error although every id is completed
C38_Witness ==
  /\ pc = "done"
  /\ DeadlockRaised
  /\ \E id \in SharedIds :
       /\ Count(entered, id) = 1
       /\ stepStatuses[id].status = "completed"
       /\ stepMapFirst(id).dependsOn # <<>>
       /\ LaterDecl(id).dependsOn = <<>>
       /\ ops[<<id, 0>>].task.type = LaterDecl(id).task
       /\ ops[<<id, 0>>].task.type # stepMapFirst(id).task
  /\ StepIds = completed

\* ------------------------------------------------------------------------
\* C39
\* ------------------------------------------------------------------------
Starts(id) == Count(emitted, <<"step:start", id>>)
Completes(id) == Count(emitted, <<"step:complete", id>>)
Errors(id) == Count(emitted, <<"step:error", id>>)

\* the step was skipped by its runWhen: it holds one of the two skip markers
SkippedByRunWhen(id) ==
  /\ stepStatuses[id].status = "skipped"
  /\ Slot(id) \in {OnDemandMarker, ConditionFalseMarker(stepMap(id).runWhen)}

C39_AtMostOne ==
  \A id \in StepIds :
    /\ Starts(id) <= 1
    /\ Completes(id) + Errors(id) <= 1

\* the clock counts the events emitted: startedAt is read before step:start
\* is emitted, completedAt before the terminal event
C39_StartFirst ==
  \A id \in StepIds :
    (Starts(id) = 1 /\ Completes(id) + Errors(id) = 1) =>
      /\ stepStatuses[id].startedAt # Unset
      /\ stepStatuses[id].completedAt # Unset
      /\ stepStatuses[id].startedAt < stepStatuses[id].completedAt

\* no step:start follows the terminal event of the step
C39_NoStartAfter ==
  \A id \in StepIds :
    Completes(id) + Errors(id) = 1 => Starts(id)' = Starts(id)

C39_TerminalIffEvent ==
  \A id \in StepIds :
    /\ Terminal(id) <=> (Completes(id) + Errors(id) = 1)
    /\ stepStatuses[id].status = "completed" => Completes(id) = 1
    /\ stepStatuses[id].status = "failed" => Errors(id) = 1

C39_SkipWithoutStart ==
  \A id \in StepIds :
    SkippedByRunWhen(id) => (Completes(id) = 1 /\ Starts(id) = 0 /\ Errors(id) = 0)

\* C39: for every step of a DAG pipeline, at most one step:start and at
\* most one terminal event (step:complete or step:error) are emitted,
\* step:start precedes the terminal event when both occur, a step is
\* terminal iff its terminal event was emitted, and a step skipped by
\* runWhen emits step:complete without any step:start
C39_StepEvents ==
  /\ [](hasDependencies =>
         /\ C39_AtMostOne
         /\ C39_StartFirst
         /\ C39_TerminalIffEvent
         /\ C39_SkipWithoutStart)
  /\ [][hasDependencies => C39_NoStartAfter]_vars

\* a pipeline ended in which one step was skipped by runWhen without a
\* step:start and another one started and completed
C39_Witness ==
  /\ hasDependencies
  /\ pc = "done"
  /\ \E id \in StepIds : SkippedByRunWhen(id) /\ Starts(id) = 0 /\ Completes(id) = 1
  /\ \E id \in StepIds :
       /\ stepStatuses[id].status = "completed"
       /\ Starts(id) = 1
       /\ Completes(id) = 1

\* ------------------------------------------------------------------------
\* C40
\* ------------------------------------------------------------------------
\* no step of the pipeline declares an id or a dependsOn
NoIdNoDependsOn ==
  /\ isPipeline
  /\ \A k \in 1..Len(Steps) : Steps[k].id = "" /\ Steps[k].dependsOn = <<>>

\* the positions (from 0) of the steps that declare a forEach
ForEachDeclared == {i \in 0..(totalSteps - 1) : IsPresent(Steps[i + 1].forEach)}

\* the most backend calls the retry configuration of the step allows
CallsAllowed(step) ==
  IF StepRetry(step).present /\ StepRetry(step).attempts > 1
  THEN StepRetry(step).attempts
  ELSE 1

\* the input resolved without item and index: a template that names them
\* resolves to undefined
WithoutItem(step) ==
  [key \in DOMAIN step.input |->
     IF step.input[key] \in {Tpl(<<"item">>), Tpl(<<"index">>)}
     THEN Undefined
     ELSE resolveTemplate(step.input[key], Obj([payload |-> Obj(task.payload)]))]

C40_SingleSubTask ==
  NoIdNoDependsOn =>
    /\ forEachLocal = EmptyRec
    /\ \A i \in ForEachDeclared :
         LET id == DefaultId(i)
             step == Steps[i + 1]
         IN /\ KeysOf(id) \subseteq {<<id, 0>>}
            /\ \A key \in KeysOf(id) :
                 /\ ops[key].calls <= CallsAllowed(step)
                 /\ ops[key].task.payload = WithoutItem(step)
            /\ id \in DOMAIN stepStatuses =>
                 /\ stepStatuses[id].error.kind # ForEachTypeMsg(step.forEach, "").kind
                 /\ stepStatuses[id].status = "completed" =>
                      /\ ops[<<id, 0>>].calls \in 1..CallsAllowed(step)
                      /\ stepStatuses[id].result = ops[<<id, 0>>].value
                      /\ stepStatuses[id].result \in BackendResults(ops[<<id, 0>>].task)
                      /\ ~IsArray(stepStatuses[id].result)
                      /\ stepResults[i + 1] = stepStatuses[id].result

====
